---- MODULE Spec2Model ----
(***************************************************************************)
(* Model of the client-side metadata cache of src/kudu/client/meta_cache.cc *)
(* (RemoteTablet, MetaCacheEntry, MetaCache, LookupRpc, LookupRpcById and   *)
(* MetaCacheServerPicker).                                                  *)
(*                                                                          *)
(* Partition keys are byte strings ordered lexicographically; the model     *)
(* uses the naturals 0..MaxKey with 0 standing for the empty string "",     *)
(* which is the smallest string.  An empty upper bound means "unbounded".   *)
(* DCHECKs are compiled out (release build); CHECKs (FindOrDie,             *)
(* InsertOrDie, EmplaceOrDie, FindFloorOrDie) end the process ("Fatal").    *)
(***************************************************************************)
EXTENDS Integers, Sequences, FiniteSets, TLC

VARIABLES
  now,                        \* MonoTime::Now()
  ts_registry,                \* MetaCache::ts_registry_ : uuid -> owned RemoteTabletServer
  ts_cache,                   \* MetaCache::ts_cache_ : uuid -> RemoteTabletServer pointer
  tablets,                    \* heap of RemoteTablet objects, by reference
  tablets_by_id,              \* MetaCache::tablets_by_id_ : tablet id -> reference
  tablets_by_table_and_key,   \* MetaCache::tablets_by_table_and_key_
  entry_by_tablet_id,         \* MetaCache::entry_by_tablet_id_
  crashed,                    \* a CHECK failed: the process is gone
  master_lookup_sem,          \* MetaCache::master_lookup_sem_: permits available
  lookups,                    \* the LookupRpc / LookupRpcById objects followed one by one
  pool,                       \* LookupRpc objects counted only: each holds a permit, its RPC is out
  picker,                     \* a MetaCacheServerPicker
  last,                       \* the last completed call: arguments and outcome
  threads,                    \* per thread: the lock operations of its call, and how far it is
  picking                     \* a PickLeader call followed line by line: its locals

vars == <<now, ts_registry, ts_cache, tablets, tablets_by_id,
          tablets_by_table_and_key, entry_by_tablet_id, crashed,
          master_lookup_sem, lookups, pool, picker, last, threads, picking>>

lookupVars == <<master_lookup_sem, lookups, pool>>

cacheVars == <<ts_registry, ts_cache, tablets, tablets_by_id,
               tablets_by_table_and_key, entry_by_tablet_id>>

----------------------------------------------------------------------------
(* Bounds of the model *)

MaxKey == 4        \* partition keys are 0 ("") .. MaxKey
MaxTime == 2       \* the clock runs 0 .. MaxTime
MaxTtl == 1        \* ttl_millis of a response is 0 .. MaxTtl
MaxLocs == 2       \* a response holds at most MaxLocs tablets
MaxGen == 1        \* RemoteTablet objects ever created per tablet id
ByIdTtl == 1       \* FLAGS_client_tablet_locations_by_id_ttl_ms, in ticks of the clock
MaxLookups == 1    \* lookup objects followed one by one
MaxDepth == 3      \* stack frames a chain of callbacks may use
MaxRegen == 2      \* RemoteTablet objects per tablet id where ClearCache is followed by ingestion

Keys == 0..MaxKey
EmptyKey == 0

\* nullptr for a RemoteTabletServer*, a RemoteTablet reference, a cache entry
NullTs == "nullptr"
NullRef == <<"", 0>>
NoEntry == [kind |-> "none"]

EmptyMap == [x \in {} |-> NoEntry]
NoServers == [u \in {} |-> NullTs]
MapPut(m, k, v) == [x \in (DOMAIN m) \cup {k} |-> IF x = k THEN v ELSE m[x]]
MapKeep(m, S) == [x \in (DOMAIN m) \cap S |-> m[x]]

----------------------------------------------------------------------------
(* The master's side: tablets, their immutable partitions, responses *)

TableIds == {"T1"}
TabletIds == {"A", "B", "C"}
Servers == {"ts1", "ts2"}

\* Partition of a tablet id: fixed for the life of the id.  C covers keys
\* that A's successor B covers too: it belongs to another epoch of the
\* table (a range partition dropped and another one added).
PartitionOf(id) ==
  CASE id = "A" -> [lower |-> 1, upper |-> 2]
    [] id = "B" -> [lower |-> 3, upper |-> 4]
    [] id = "C" -> [lower |-> 2, upper |-> EmptyKey]

\* [lower, upper) of one tablet lies wholly below the other's lower bound
Before(p, q) == p.upper # EmptyKey /\ p.upper <= q.lower

\* Replica lists the master may send for a tablet (interned form:
\* ts_info_idx into the response's ts_infos)
ReplicasLeader == <<[ts_info_idx |-> 0, role |-> "LEADER"],
                    [ts_info_idx |-> 1, role |-> "FOLLOWER"]>>
ReplicasNoLeader == <<[ts_info_idx |-> 0, role |-> "FOLLOWER"],
                      [ts_info_idx |-> 1, role |-> "FOLLOWER"]>>
ReplicasBadIdx == <<[ts_info_idx |-> 0, role |-> "LEADER"],
                    [ts_info_idx |-> 2, role |-> "FOLLOWER"]>>

ReplicasSingle == <<[ts_info_idx |-> 0, role |-> "LEADER"]>>

\* A replica list with two LEADER replicas, and one with no replica at all
ReplicasTwoLeaders == <<[ts_info_idx |-> 0, role |-> "LEADER"],
                        [ts_info_idx |-> 1, role |-> "LEADER"]>>
ReplicasNone == <<>>

TabletLocationsPB(id, reps) ==
  [tablet_id |-> id,
   partition_key_start |-> PartitionOf(id).lower,
   partition_key_end |-> PartitionOf(id).upper,
   deprecated_replicas |-> <<>>,
   interned_replicas |-> reps]

\* Tablet lists of a master response: sorted by lower bound, pairwise disjoint
TabletLists ==
  {<<>>} \cup {<<a>> : a \in TabletIds}
         \cup {<<a, b>> : a \in TabletIds, b \in TabletIds}
         \cup {<<a, b, c>> : a \in TabletIds, b \in TabletIds, c \in TabletIds}

SortedDisjoint(ids) ==
  \A i \in 1..(Len(ids) - 1) : Before(PartitionOf(ids[i]), PartitionOf(ids[i + 1]))

GetTableLocationsResponsePB(ids, reps, ttl) ==
  [error |-> "none", ttl_millis |-> ttl,
   tablet_locations |-> [i \in 1..Len(ids) |-> TabletLocationsPB(ids[i], reps[i])],
   ts_infos |-> <<"ts1", "ts2">>]

\* A response that carries an error of the master and nothing else
ErrorResponsePB(code) == [GetTableLocationsResponsePB(<<>>, <<>>, 0) EXCEPT !.error = code]

----------------------------------------------------------------------------
(* RemoteTablet *)

\* A freshly constructed RemoteTablet(tablet_id, partition)
NewRemoteTablet(id, lower, upper) ==
  [tablet_id |-> id, partition |-> [lower |-> lower, upper |-> upper],
   replicas |-> <<>>, stale |-> FALSE]

RECURSIVE DeprecatedReplicas(_, _, _)
\* Refresh, first loop, from replica i on: FindOrDie on the server map
DeprecatedReplicas(deps, tservers, i) ==
  IF i > Len(deps) THEN [status |-> "OK", replicas |-> <<>>]
  ELSE IF deps[i].permanent_uuid \notin DOMAIN tservers
       THEN [status |-> "Fatal", replicas |-> <<>>]
  ELSE LET rest == DeprecatedReplicas(deps, tservers, i + 1)
       IN IF rest.status # "OK" THEN rest
          ELSE [status |-> "OK",
                replicas |-> <<[ts |-> deps[i].permanent_uuid,
                                role |-> deps[i].role,
                                failed |-> FALSE]>> \o rest.replicas]

RECURSIVE InternedReplicas(_, _, _, _)
\* Refresh, second loop, from replica i on: index check, then FindOrDie
InternedReplicas(intr, ts_info_dict, tservers, i) ==
  IF i > Len(intr) THEN [status |-> "OK", replicas |-> <<>>]
  ELSE IF intr[i].ts_info_idx >= Len(ts_info_dict)
       THEN [status |-> "Corruption", replicas |-> <<>>]
  ELSE IF ts_info_dict[intr[i].ts_info_idx + 1] \notin DOMAIN tservers
       THEN [status |-> "Fatal", replicas |-> <<>>]
  ELSE LET rest == InternedReplicas(intr, ts_info_dict, tservers, i + 1)
       IN IF rest.status # "OK" THEN rest
          ELSE [status |-> "OK",
                replicas |-> <<[ts |-> ts_info_dict[intr[i].ts_info_idx + 1],
                                role |-> intr[i].role,
                                failed |-> FALSE]>> \o rest.replicas]

\* Refresh that appends the new replicas to the list instead of replacing it
Refresh_Append(t, tservers, locs_pb, ts_info_dict) ==
  LET d == DeprecatedReplicas(locs_pb.deprecated_replicas, tservers, 1)
      n == InternedReplicas(locs_pb.interned_replicas, ts_info_dict, tservers, 1)
  IN IF d.status # "OK" THEN [status |-> d.status, tablet |-> t]
     ELSE IF n.status # "OK" THEN [status |-> n.status, tablet |-> t]
     ELSE [status |-> "OK",
           tablet |-> [t EXCEPT !.replicas = @ \o d.replicas \o n.replicas,
                                !.stale = FALSE]]

\* Refresh that clears stale before it reads the response, error or not
Refresh_ClearStaleFirst(t, tservers, locs_pb, ts_info_dict) ==
  LET d == DeprecatedReplicas(locs_pb.deprecated_replicas, tservers, 1)
      n == InternedReplicas(locs_pb.interned_replicas, ts_info_dict, tservers, 1)
  IN IF d.status # "OK" THEN [status |-> d.status, tablet |-> [t EXCEPT !.stale = FALSE]]
     ELSE IF n.status # "OK"
     THEN [status |-> n.status, tablet |-> [t EXCEPT !.stale = FALSE]]
     ELSE [status |-> "OK",
           tablet |-> [t EXCEPT !.replicas = d.replicas \o n.replicas,
                                !.stale = FALSE]]

\* RemoteTablet::Refresh on tablet object t: the status and the object after
Refresh(t, tservers, locs_pb, ts_info_dict) ==
  LET d == DeprecatedReplicas(locs_pb.deprecated_replicas, tservers, 1)
      n == InternedReplicas(locs_pb.interned_replicas, ts_info_dict, tservers, 1)
  IN IF d.status # "OK" THEN [status |-> d.status, tablet |-> t]
     ELSE IF n.status # "OK" THEN [status |-> n.status, tablet |-> t]
     ELSE [status |-> "OK",
           tablet |-> [t EXCEPT !.replicas = d.replicas \o n.replicas,
                                !.stale = FALSE]]

\* RemoteTablet::MarkStale
MarkStale(t) == [t EXCEPT !.stale = TRUE]

\* RemoteTablet::MarkReplicaFailed
MarkReplicaFailed(t, ts) ==
  [t EXCEPT !.replicas =
     [i \in 1..Len(@) |-> IF @[i].ts = ts THEN [@[i] EXCEPT !.failed = TRUE]
                                          ELSE @[i]]]

\* RemoteTablet::LeaderTServer: the first non-failed LEADER replica's server
LeaderTServer(t) ==
  LET idx == {i \in 1..Len(t.replicas) :
                ~t.replicas[i].failed /\ t.replicas[i].role = "LEADER"}
  IN IF idx = {} THEN NullTs
     ELSE t.replicas[CHOOSE i \in idx : \A j \in idx : i <= j].ts

\* HasLeader that counts a failed LEADER replica too
HasLeader_EvenFailed(t) == \E i \in 1..Len(t.replicas) : t.replicas[i].role = "LEADER"

\* RemoteTablet::HasLeader
HasLeader(t) == LeaderTServer(t) # NullTs

RECURSIVE NonFailedFrom(_, _)
NonFailedFrom(reps, i) ==
  IF i > Len(reps) THEN <<>>
  ELSE IF reps[i].failed THEN NonFailedFrom(reps, i + 1)
  ELSE <<reps[i].ts>> \o NonFailedFrom(reps, i + 1)

\* GetRemoteTabletServers that returns the failed replicas' servers too
GetRemoteTabletServers_All(t) == [i \in 1..Len(t.replicas) |-> t.replicas[i].ts]

\* RemoteTablet::GetRemoteTabletServers
GetRemoteTabletServers(t) == NonFailedFrom(t.replicas, 1)

\* MarkTServerAsLeader that leaves the other leaders as they are
MarkTServerAsLeader_NoDemote(t, server) ==
  [t EXCEPT !.replicas =
     [i \in 1..Len(@) |->
        IF @[i].ts = server THEN [@[i] EXCEPT !.role = "LEADER"] ELSE @[i]]]

\* MarkTServerAsLeader that changes nothing
MarkTServerAsLeader_Forget(t, server) == t

\* RemoteTablet::MarkTServerAsLeader
MarkTServerAsLeader(t, server) ==
  [t EXCEPT !.replicas =
     [i \in 1..Len(@) |->
        IF @[i].ts = server THEN [@[i] EXCEPT !.role = "LEADER"]
        ELSE IF @[i].role = "LEADER" THEN [@[i] EXCEPT !.role = "FOLLOWER"]
        ELSE @[i]]]

\* RemoteTablet::MarkTServerAsFollower
MarkTServerAsFollower(t, server) ==
  [t EXCEPT !.replicas =
     [i \in 1..Len(@) |->
        IF @[i].ts = server THEN [@[i] EXCEPT !.role = "FOLLOWER"] ELSE @[i]]]

----------------------------------------------------------------------------
(* MetaCacheEntry.  h is the heap of RemoteTablet objects. *)

\* MetaCacheEntry(expiration_time, lower, upper): a non-covered range
NonCoveredEntry(expiration_time, lower, upper) ==
  [kind |-> "nc", expiration_time |-> expiration_time,
   lower_bound |-> lower, upper_bound |-> upper, tablet |-> NullRef]

\* MetaCacheEntry(expiration_time, tablet): a tablet
TabletEntry(expiration_time, ref) ==
  [kind |-> "tablet", expiration_time |-> expiration_time,
   lower_bound |-> EmptyKey, upper_bound |-> EmptyKey, tablet |-> ref]

\* tablet_ == nullptr: true of a non-covered range, and of a default-
\* constructed entry
is_non_covered_range(e) == e.kind # "tablet"

lower_bound_partition_key(h, e) ==
  IF is_non_covered_range(e) THEN e.lower_bound ELSE h[e.tablet].partition.lower

upper_bound_partition_key(h, e) ==
  IF is_non_covered_range(e) THEN e.upper_bound ELSE h[e.tablet].partition.upper

refresh_expiration_time(e, expiration_time) ==
  [e EXCEPT !.expiration_time = expiration_time]

\* MetaCacheEntry::Contains
Contains(h, e, partition_key) ==
  /\ lower_bound_partition_key(h, e) <= partition_key
  /\ \/ upper_bound_partition_key(h, e) = EmptyKey
     \/ upper_bound_partition_key(h, e) > partition_key

\* stale() that forgets the expiration time
EntryStale_NoTtl(h, e, t) ==
  ~is_non_covered_range(e) /\ h[e.tablet].stale

\* MetaCacheEntry::stale at time t
EntryStale(h, e, t) ==
  \/ e.expiration_time < t
  \/ (~is_non_covered_range(e) /\ h[e.tablet].stale)

----------------------------------------------------------------------------
(* MetaCache.  A cache value c gathers the fields guarded by MetaCache::lock_ *)
(* and the RemoteTablet heap; c.fatal records a failed CHECK.                 *)

\* MetaCache::MetaCache: everything empty
EmptyCache ==
  [ts_registry |-> NoServers, ts_cache |-> NoServers, tablets |-> [r \in {} |-> NoEntry],
   tablets_by_id |-> [i \in {} |-> NullRef],
   by_key |-> [t \in {} |-> EmptyMap],
   entry_by_id |-> EmptyMap, fatal |-> FALSE]

\* new RemoteTabletServer(pb): an object distinct from those the registry owns.
\* A RemoteTabletServer object is <<uuid, n>>; a replica names its server by
\* the uuid.
NewRemoteTabletServer(c, uuid) ==
  <<uuid, 1 + Cardinality({u \in DOMAIN c.ts_registry : c.ts_registry[u][1] = uuid})>>

\* UpdateTabletServerUnlocked that constructs a new RemoteTabletServer for
\* every uuid missing from ts_cache_, registered or not
UpdateTabletServerUnlocked_Reallocate(c, uuid) ==
  IF uuid \in DOMAIN c.ts_cache THEN c
  ELSE LET ts == NewRemoteTabletServer(c, uuid)
       IN [c EXCEPT !.ts_registry = MapPut(@, uuid, ts),
                    !.ts_cache = MapPut(@, uuid, ts)]

\* MetaCache::UpdateTabletServerUnlocked for the TSInfoPB of server uuid
UpdateTabletServerUnlocked(c, uuid) ==
  IF uuid \in DOMAIN c.ts_cache THEN c
  ELSE IF uuid \in DOMAIN c.ts_registry
       THEN [c EXCEPT !.ts_cache = MapPut(@, uuid, c.ts_registry[uuid])]
       ELSE LET ts == NewRemoteTabletServer(c, uuid)
            IN [c EXCEPT !.ts_registry = MapPut(@, uuid, ts),
                         !.ts_cache = MapPut(@, uuid, ts)]

RECURSIVE UpdateTabletServers(_, _, _)
\* UpdateTabletServerUnlocked for uuids[i..]
UpdateTabletServers(c, uuids, i) ==
  IF i > Len(uuids) THEN c
  ELSE UpdateTabletServers(UpdateTabletServerUnlocked(c, uuids[i]), uuids, i + 1)

\* The deprecated_replicas' servers of tablet_locations[i..], in order
RECURSIVE DeprecatedUuids(_, _)
DeprecatedUuids(locs, i) ==
  IF i > Len(locs) THEN <<>>
  ELSE [j \in 1..Len(locs[i].deprecated_replicas) |->
          locs[i].deprecated_replicas[j].permanent_uuid]
       \o DeprecatedUuids(locs, i + 1)

\* std::map::erase(lower_bound(from), lower_bound(to)); to_end: up to end()
EraseRange(m, from, to, to_end) ==
  MapKeep(m, {k \in DOMAIN m : ~(k >= from /\ (to_end \/ k < to))})

\* InsertOrDie / EmplaceOrDie into the range map of a table
InsertOrDie(c, table, key, entry) ==
  IF key \in DOMAIN c.by_key[table] THEN [c EXCEPT !.fatal = TRUE]
  ELSE [c EXCEPT !.by_key[table] = MapPut(@, key, entry)]

\* FindFloorOrNull: the entry with the greatest key <= partition_key
FindFloorOrNull(m, partition_key) ==
  LET below == {k \in DOMAIN m : k <= partition_key}
  IN IF below = {} THEN NoEntry
     ELSE m[CHOOSE k \in below : \A j \in below : j <= k]

\* A new object reference for tablet id: the next generation of that id
NewRef(c, id) == <<id, 1 + Cardinality({r \in DOMAIN c.tablets : r[1] = id})>>

\* The non-covered range between the previous tablet and this one
\* (lines 1090-1101)
GapBeforeTablet(c, table, tablet_lower_bound, expiration_time, last_upper_bound) ==
  IF last_upper_bound < tablet_lower_bound
  THEN InsertOrDie(
         [c EXCEPT !.by_key[table] =
            EraseRange(@, last_upper_bound, tablet_lower_bound, FALSE)],
         table, last_upper_bound,
         NonCoveredEntry(expiration_time, last_upper_bound, tablet_lower_bound))
  ELSE c

\* Lines 1118-1136, r being what Refresh returned for the known tablet
\* remote: on success the TTL of the entry at its lower bound is refreshed,
\* or the tablet is indexed there if no entry is
KnownTabletRefreshed(c, table, tablet, expiration_time, remote, r) ==
  IF r.status # "OK"
  THEN [cache |-> [c EXCEPT !.fatal = @ \/ r.status = "Fatal"], status |-> r.status]
  ELSE IF tablet.partition_key_start \in DOMAIN c.by_key[table]
  THEN [cache |-> [c EXCEPT !.tablets[remote] = r.tablet,
                            !.by_key[table][tablet.partition_key_start] =
                               refresh_expiration_time(@, expiration_time)],
        status |-> "OK"]
  ELSE [cache |-> InsertOrDie([c EXCEPT !.tablets[remote] = r.tablet], table,
                              tablet.partition_key_start,
                              TabletEntry(expiration_time, remote)),
        status |-> "OK"]

\* A tablet already in tablets_by_id_ (lines 1110-1137)
RefreshKnownTablet(c, table, tablet, ts_infos, expiration_time) ==
  KnownTabletRefreshed(
    c, table, tablet, expiration_time, c.tablets_by_id[tablet.tablet_id],
    Refresh(c.tablets[c.tablets_by_id[tablet.tablet_id]], c.ts_cache, tablet, ts_infos))

\* Lines 1138-1141: the entries keyed inside the new tablet's range are erased
EraseForTablet(c, table, tablet) ==
  [c EXCEPT !.by_key[table] =
     EraseRange(@, tablet.partition_key_start, tablet.partition_key_end,
                tablet.partition_key_end = EmptyKey)]

\* NewTabletRefreshed that forgets to index the new tablet by key
NewTabletRefreshed_NotIndexed(c, table, tablet, expiration_time, remote, r) ==
  IF r.status # "OK"
  THEN [cache |-> [c EXCEPT !.fatal = @ \/ r.status = "Fatal"], status |-> r.status]
  ELSE [cache |-> [c EXCEPT !.tablets = MapPut(@, remote, r.tablet),
                            !.tablets_by_id = MapPut(@, tablet.tablet_id, remote)],
        status |-> "OK"]

\* Lines 1146-1153, r being what Refresh returned for the new object remote:
\* on success the tablet is indexed by id and by key
NewTabletRefreshed(c, table, tablet, expiration_time, remote, r) ==
  IF r.status # "OK"
  THEN [cache |-> [c EXCEPT !.fatal = @ \/ r.status = "Fatal"], status |-> r.status]
  ELSE [cache |->
          InsertOrDie(
            [c EXCEPT !.tablets = MapPut(@, remote, r.tablet),
                      !.tablets_by_id = MapPut(@, tablet.tablet_id, remote)],
            table, tablet.partition_key_start, TabletEntry(expiration_time, remote)),
        status |-> "OK"]

\* A tablet not in tablets_by_id_: erase the entries keyed inside its range,
\* create the RemoteTablet, index it by id and by key (lines 1138-1154)
InstallNewTablet(c, table, tablet, ts_infos, expiration_time) ==
  NewTabletRefreshed(
    EraseForTablet(c, table, tablet), table, tablet, expiration_time,
    NewRef(c, tablet.tablet_id),
    Refresh(NewRemoteTablet(tablet.tablet_id, tablet.partition_key_start,
                            tablet.partition_key_end),
            c.ts_cache, tablet, ts_infos))

\* Lines 1103-1154: the tablet itself, once the gap before it is recorded
IndexTablet(c, table, tablet, ts_infos, expiration_time) ==
  IF tablet.tablet_id \in DOMAIN c.tablets_by_id
  THEN RefreshKnownTablet(c, table, tablet, ts_infos, expiration_time)
  ELSE InstallNewTablet(c, table, tablet, ts_infos, expiration_time)

\* The body of the tablet loop for one TabletLocationsPB (lines 1087-1154):
\* the cache and the status after it
ProcessTablet(c, table, tablet, ts_infos, expiration_time, last_upper_bound) ==
  IndexTablet(GapBeforeTablet(c, table, tablet.partition_key_start,
                              expiration_time, last_upper_bound),
              table, tablet, ts_infos, expiration_time)

RECURSIVE TabletLoop(_, _, _, _, _, _)
RECURSIVE TabletLoopNext(_, _, _, _, _)

\* The loop over tablet_locations[i..] (line 1086)
TabletLoop(c, table, resp, expiration_time, last_upper_bound, i) ==
  IF i > Len(resp.tablet_locations)
  THEN [cache |-> c, status |-> "OK", last_upper_bound |-> last_upper_bound]
  ELSE TabletLoopNext(
         ProcessTablet(c, table, resp.tablet_locations[i], resp.ts_infos,
                       expiration_time, last_upper_bound),
         table, resp, expiration_time, i)

\* The loop after tablet i left step: it stops at the first error
TabletLoopNext(step, table, resp, expiration_time, i) ==
  IF step.status # "OK"
  THEN [cache |-> step.cache, status |-> step.status,
        last_upper_bound |-> resp.tablet_locations[i].partition_key_end]
  ELSE TabletLoop(step.cache, table, resp, expiration_time,
                  resp.tablet_locations[i].partition_key_end, i + 1)

\* The entry handed back to the requestor (lines 1171-1178)
DiscoveredEntry(c, table, partition_key, is_exact_lookup) ==
  LET m == c.by_key[table]
      e == FindFloorOrNull(m, partition_key)
  IN IF e = NoEntry THEN NoEntry
     ELSE IF ~is_exact_lookup /\ is_non_covered_range(e)
             /\ upper_bound_partition_key(c.tablets, e) # EmptyKey
     THEN FindFloorOrNull(m, upper_bound_partition_key(c.tablets, e))
     ELSE e

\* Lines 1171-1178 with the entry e found: FindFloorOrDie dies without one
DiscoveredResult(c, e) ==
  IF c.fatal \/ e = NoEntry
  THEN [cache |-> [c EXCEPT !.fatal = TRUE], status |-> "Fatal", entry |-> NoEntry]
  ELSE [cache |-> c, status |-> "OK", entry |-> e]

\* The result of an ingestion once the map is final
Discovered(c, table, partition_key, is_exact_lookup) ==
  DiscoveredResult(c, DiscoveredEntry(c, table, partition_key, is_exact_lookup))

\* InitialNonCoveredRange with <= for <
InitialNonCoveredRange_Le(c, table, partition_key, first_lower_bound, expiration_time) ==
  IF partition_key <= first_lower_bound
  THEN InsertOrDie(
         [c EXCEPT !.by_key[table] =
            EraseRange(@, EmptyKey, first_lower_bound, FALSE)],
         table, EmptyKey,
         NonCoveredEntry(expiration_time, EmptyKey, first_lower_bound))
  ELSE c

\* The initial non-covered range, inferred when the first tablet lies past
\* the requested key (lines 1071-1081)
InitialNonCoveredRange(c, table, partition_key, first_lower_bound, expiration_time) ==
  IF partition_key < first_lower_bound
  THEN InsertOrDie(
         [c EXCEPT !.by_key[table] =
            EraseRange(@, EmptyKey, first_lower_bound, FALSE)],
         table, EmptyKey,
         NonCoveredEntry(expiration_time, EmptyKey, first_lower_bound))
  ELSE c

\* TrailingNonCoveredRange that does not look at the number of tablets returned
TrailingNonCoveredRange_AnyCount(c, table, last_upper_bound, count, max_returned_locations, expiration_time) ==
  IF last_upper_bound # EmptyKey
  THEN InsertOrDie(
         [c EXCEPT !.by_key[table] =
            EraseRange(@, last_upper_bound, EmptyKey, TRUE)],
         table, last_upper_bound,
         NonCoveredEntry(expiration_time, last_upper_bound, EmptyKey))
  ELSE c

\* The trailing non-covered range, inferred after a short read (lines 1157-1168)
TrailingNonCoveredRange(c, table, last_upper_bound, count, max_returned_locations, expiration_time) ==
  IF last_upper_bound # EmptyKey /\ count < max_returned_locations
  THEN InsertOrDie(
         [c EXCEPT !.by_key[table] =
            EraseRange(@, last_upper_bound, EmptyKey, TRUE)],
         table, last_upper_bound,
         NonCoveredEntry(expiration_time, last_upper_bound, EmptyKey))
  ELSE c

\* The table's range map, created empty if the table has none (line 1033)
WithTable(c, table) ==
  IF table \in DOMAIN c.by_key THEN c
  ELSE [c EXCEPT !.by_key = MapPut(@, table, EmptyMap)]

\* EmptyTable that does not clear the map first
EmptyTable_NoClear(c, table, expiration_time) ==
  [c EXCEPT !.by_key[table] =
     MapPut(@, EmptyKey, NonCoveredEntry(expiration_time, EmptyKey, EmptyKey))]

\* Lines 1036-1041: no tablets, the whole table is one non-covered range
EmptyTable(c, table, expiration_time) ==
  InsertOrDie([c EXCEPT !.by_key[table] = EmptyMap], table, EmptyKey,
              NonCoveredEntry(expiration_time, EmptyKey, EmptyKey))

\* Lines 1157-1178, loop being what the tablet loop left
AfterTabletLoop(loop, table, partition_key, is_exact_lookup, count, max_returned_locations, expiration_time) ==
  IF loop.status # "OK"
  THEN [cache |-> loop.cache, status |-> loop.status, entry |-> NoEntry]
  ELSE Discovered(
         TrailingNonCoveredRange(loop.cache, table, loop.last_upper_bound, count,
                                 max_returned_locations, expiration_time),
         table, partition_key, is_exact_lookup)

\* Lines 1042-1178: a response with tablets
NonEmptyTable(c, table, partition_key, is_exact_lookup, resp, max_returned_locations, expiration_time) ==
  AfterTabletLoop(
    TabletLoop(
      InitialNonCoveredRange(
        UpdateTabletServers(
          UpdateTabletServers(c, DeprecatedUuids(resp.tablet_locations, 1), 1),
          resp.ts_infos, 1),
        table, partition_key, resp.tablet_locations[1].partition_key_start,
        expiration_time),
      table, resp, expiration_time,
      resp.tablet_locations[1].partition_key_start, 1),
    table, partition_key, is_exact_lookup, Len(resp.tablet_locations),
    max_returned_locations, expiration_time)

\* MetaCache::ProcessGetTableLocationsResponse at time t: the cache after,
\* the status and *cache_entry
ProcessGetTableLocationsResponse(c, t, table, partition_key, is_exact_lookup, resp, max_returned_locations) ==
  IF Len(resp.tablet_locations) = 0
  THEN Discovered(EmptyTable(WithTable(c, table), table, t + resp.ttl_millis),
                  table, partition_key, is_exact_lookup)
  ELSE NonEmptyTable(WithTable(c, table), table, partition_key, is_exact_lookup,
                     resp, max_returned_locations, t + resp.ttl_millis)

\* MetaCache::ProcessGetTabletLocationsResponse at time t for tablet_id.
\* resp.tablet_locations holds at most the one tablet asked for.
ProcessGetTabletLocationsResponse(c, t, tablet_id, resp) ==
  LET expiration_time == t + ByIdTtl
      tablet_locations == resp.tablet_locations
  IN IF Len(tablet_locations) = 0
     THEN [cache |-> c, status |-> "NotFound", entry |-> NoEntry]
     ELSE
       LET tablet == tablet_locations[1]
           c1 == UpdateTabletServers(c, resp.ts_infos, 1)
       IN IF tablet_id \in DOMAIN c1.tablets_by_id
          THEN
            LET remote == c1.tablets_by_id[tablet_id]
                r == Refresh(c1.tablets[remote], c1.ts_cache, tablet, resp.ts_infos)
                c2 == [c1 EXCEPT !.tablets[remote] = r.tablet]
                \* LookupOrEmplace, then refresh_expiration_time
                mapped == IF tablet_id \in DOMAIN c2.entry_by_id
                          THEN c2.entry_by_id[tablet_id]
                          ELSE TabletEntry(expiration_time, remote)
                c3 == [c2 EXCEPT !.entry_by_id =
                         MapPut(@, tablet_id,
                                refresh_expiration_time(mapped, expiration_time))]
            IN IF r.status # "OK"
               THEN [cache |-> [c1 EXCEPT !.fatal = @ \/ r.status = "Fatal"],
                     status |-> r.status, entry |-> NoEntry]
               ELSE [cache |-> c3, status |-> "OK",
                     entry |-> c3.entry_by_id[tablet_id]]
          ELSE
            LET remote == NewRef(c1, tablet_id)
                r == Refresh(NewRemoteTablet(tablet_id, tablet.partition_key_start,
                                             tablet.partition_key_end),
                             c1.ts_cache, tablet, resp.ts_infos)
                dies == tablet_id \in DOMAIN c1.entry_by_id
                c2 == [c1 EXCEPT !.tablets = MapPut(@, remote, r.tablet),
                                 !.tablets_by_id = MapPut(@, tablet_id, remote),
                                 !.entry_by_id =
                                    MapPut(@, tablet_id,
                                           TabletEntry(expiration_time, remote)),
                                 !.fatal = @ \/ dies]
            IN IF r.status # "OK"
               THEN [cache |-> [c1 EXCEPT !.fatal = @ \/ r.status = "Fatal"],
                     status |-> r.status, entry |-> NoEntry]
               ELSE IF dies
               THEN [cache |-> c2, status |-> "Fatal", entry |-> NoEntry]
               ELSE [cache |-> c2, status |-> "OK",
                     entry |-> c2.entry_by_id[tablet_id]]

\* MetaCache::LookupEntryByKeyFastPath at time t: the entry found, or NoEntry
LookupEntryByKeyFastPath(c, t, table, partition_key) ==
  IF table \notin DOMAIN c.by_key THEN NoEntry
  ELSE LET e == FindFloorOrNull(c.by_key[table], partition_key)
       IN IF e = NoEntry THEN NoEntry
          ELSE IF EntryStale(c.tablets, e, t) THEN NoEntry
          ELSE IF Contains(c.tablets, e, partition_key) THEN e
          ELSE NoEntry

RECURSIVE DoFastPathLookup(_, _, _, _, _)
\* MetaCache::DoFastPathLookup at time t: the status, *remote_tablet, the
\* entry it rests on and *partition_key as the loop leaves it
DoFastPathLookup(c, t, table, partition_key, lookup_type) ==
  LET entry == LookupEntryByKeyFastPath(c, t, table, partition_key)
      incomplete == [status |-> "Incomplete", tablet |-> NullRef,
                     entry |-> NoEntry, partition_key |-> partition_key]
  IN IF entry = NoEntry THEN incomplete
     ELSE IF ~is_non_covered_range(entry)
     THEN IF HasLeader(c.tablets[entry.tablet])
          THEN [status |-> "OK", tablet |-> entry.tablet, entry |-> entry,
                partition_key |-> partition_key]
          ELSE incomplete
     ELSE IF lookup_type = "kPoint"
             \/ upper_bound_partition_key(c.tablets, entry) = EmptyKey
     THEN [status |-> "NotFound", tablet |-> NullRef, entry |-> entry,
           partition_key |-> partition_key]
     ELSE DoFastPathLookup(c, t, table,
                           upper_bound_partition_key(c.tablets, entry), lookup_type)

\* MetaCache::LookupEntryByIdFastPath at time t
LookupEntryByIdFastPath(c, t, tablet_id) ==
  IF tablet_id \notin DOMAIN c.entry_by_id THEN NoEntry
  ELSE IF EntryStale(c.tablets, c.entry_by_id[tablet_id], t) THEN NoEntry
  ELSE c.entry_by_id[tablet_id]

\* MetaCache::DoFastPathLookupById at time t
DoFastPathLookupById(c, t, tablet_id) ==
  LET entry == LookupEntryByIdFastPath(c, t, tablet_id)
  IN IF entry # NoEntry /\ HasLeader(c.tablets[entry.tablet])
     THEN [status |-> "OK", tablet |-> entry.tablet, entry |-> entry]
     ELSE [status |-> "Incomplete", tablet |-> NullRef, entry |-> NoEntry]

\* ClearNonCoveredRangeEntries that erases every entry of the table's map
ClearNonCoveredRangeEntries_All(c, table_id) ==
  IF table_id \notin DOMAIN c.by_key THEN c
  ELSE [c EXCEPT !.by_key[table_id] = EmptyMap]

\* MetaCache::ClearNonCoveredRangeEntries
ClearNonCoveredRangeEntries(c, table_id) ==
  IF table_id \notin DOMAIN c.by_key THEN c
  ELSE [c EXCEPT !.by_key[table_id] =
          MapKeep(@, {k \in DOMAIN @ : ~is_non_covered_range(@[k])})]

\* ClearCache that leaves entry_by_tablet_id_ as it is
ClearCache_KeepEntriesById(c) ==
  [c EXCEPT !.ts_cache = NoServers,
            !.tablets_by_id = [i \in {} |-> NullRef],
            !.by_key = [t \in {} |-> EmptyMap]]

\* MetaCache::ClearCache
ClearCache(c) ==
  [c EXCEPT !.ts_cache = NoServers,
            !.tablets_by_id = [i \in {} |-> NullRef],
            !.by_key = [t \in {} |-> EmptyMap],
            !.entry_by_id = EmptyMap]

\* MarkTSFailed that marks every RemoteTablet object alive, indexed or not
MarkTSFailed_EveryObject(c, ts) ==
  [c EXCEPT !.tablets = [r \in DOMAIN @ |-> MarkReplicaFailed(@[r], ts)]]

\* MetaCache::MarkTSFailed
MarkTSFailed(c, ts) ==
  [c EXCEPT !.tablets =
     [r \in DOMAIN @ |->
        IF \E id \in DOMAIN c.tablets_by_id : c.tablets_by_id[id] = r
        THEN MarkReplicaFailed(@[r], ts) ELSE @[r]]]


----------------------------------------------------------------------------
(* LookupRpc and LookupRpcById.  A lookup object rpc is a record; pc tells   *)
(* where it waits: "rpc" (the request is with the master) or "retry" (a      *)
(* delayed retry is scheduled).  cb names its user callback: "user" for a    *)
(* caller's own, "picker" for MetaCacheServerPicker::LookUpTabletCb.         *)
(* acquired counts the permits the object obtained.                          *)

\* MetaCache::master_lookup_sem_ is constructed with this many permits
kMasterLookupPermits == 50

kFetchTabletsPerRangeLookup == 10
kFetchTabletsPerPointLookup == 1

NoLookup ==
  [pc |-> "free", kind |-> "", cb |-> "", table |-> "", partition_key |-> EmptyKey,
   lookup_type |-> "", tablet_id |-> "", has_permit |-> FALSE, acquired |-> 0,
   retry_status |-> ""]

\* LookupRpc::LookupRpc
NewLookupRpc(cb, table, partition_key, lookup_type) ==
  [NoLookup EXCEPT !.pc = "new", !.kind = "key", !.cb = cb, !.table = table,
                   !.partition_key = partition_key, !.lookup_type = lookup_type]

\* LookupRpcById::LookupRpcById
NewLookupRpcById(cb, tablet_id) ==
  [NoLookup EXCEPT !.pc = "new", !.kind = "id", !.cb = cb, !.tablet_id = tablet_id]

\* LookupRpc::locations_to_fetch
locations_to_fetch(lookup_type) ==
  IF lookup_type = "kLowerBound" THEN kFetchTabletsPerRangeLookup
  ELSE kFetchTabletsPerPointLookup

\* AcquireMasterLookupPermit that always grants
AcquireMasterLookupPermit_Always(sem) == [ok |-> TRUE, sem |-> sem - 1]

\* MetaCache::AcquireMasterLookupPermit: Semaphore::TryAcquire
AcquireMasterLookupPermit(sem) ==
  IF sem > 0 THEN [ok |-> TRUE, sem |-> sem - 1] ELSE [ok |-> FALSE, sem |-> sem]

\* MetaCache::ReleaseMasterLookupPermit: Semaphore::Release
ReleaseMasterLookupPermit(sem) == sem + 1

\* ~LookupRpc that keeps its permit
LookupRpcDtor_Keep(sem, rpc) == sem

\* LookupRpc::~LookupRpc (and ~LookupRpcById, which does nothing): the
\* semaphore after the object is destroyed
LookupRpcDtor(sem, rpc) ==
  IF rpc.kind = "key" /\ rpc.has_permit THEN ReleaseMasterLookupPermit(sem) ELSE sem

\* RpcRetrier::DelayedRetry: the object stays alive and waits for the retry
DelayedRetry(rpc, status) == [rpc EXCEPT !.pc = "retry", !.retry_status = status]

\* AsyncLeaderMasterRpc::RetryOrReconnectIfNecessary: transient errors and
\* changes of the leader master are retried
RetryOrReconnectIfNecessary(status) == status = "NetworkError"

kTooManyRequests == "TimedOut: client has too many outstanding requests to the master"

\* LookupRpc::SendRpcSlowPath: the semaphore and the object afterwards
LookupRpc_SendRpcSlowPath(sem, rpc) ==
  LET p == IF rpc.has_permit THEN [ok |-> TRUE, sem |-> sem]
           ELSE AcquireMasterLookupPermit(sem)
  IN IF ~p.ok
     THEN [sem |-> p.sem, rpc |-> DelayedRetry(rpc, kTooManyRequests)]
     ELSE [sem |-> p.sem,
           rpc |-> [rpc EXCEPT !.has_permit = TRUE,
                               !.acquired = IF rpc.has_permit THEN @ ELSE @ + 1,
                               !.pc = "rpc", !.retry_status = ""]]

\* LookupRpcById::SendRpcSlowPath: no permit is asked for
LookupRpcById_SendRpcSlowPath(sem, rpc) ==
  [sem |-> sem, rpc |-> [rpc EXCEPT !.pc = "rpc", !.retry_status = ""]]

----------------------------------------------------------------------------
(* MetaCacheServerPicker, and the call chains that run through callbacks.    *)
(* A world w gathers what a chain reads and writes: the cache, the permit    *)
(* semaphore, the picker, and w.proxy, the status RemoteTabletServer::       *)
(* InitProxy will complete with.  A chain ends in an outcome o:              *)
(*   o.kind = "callback"  the user callback ran with o.status                *)
(*   o.kind = "picked"    the pick completion ran with o.status, o.ts        *)
(*   o.kind = "pending"   a lookup object o.rpc was left waiting             *)
(*   o.kind = "fatal"     a CHECK failed or the stack ran out                *)
(* o.ended is the lookup object the chain deleted, o.released the permits   *)
(* its destructor gave back.                                                 *)

\* MetaCacheServerPicker::MetaCacheServerPicker.  reported_* are history:
\* the servers given to MarkReplicaNotLeader since the last lookup completion
\* of this picker, successful (ok) or of any status (any).
NewPicker(tablet, has_table, table) ==
  [tablet |-> tablet, has_table |-> has_table, table |-> table, followers |-> {},
   reported_ok |-> {}, reported_any |-> {}]

NoPicker == NewPicker(NullRef, FALSE, "")

Outcome(w, kind, status, ts, entry, rpc) ==
  [cache |-> w.cache, sem |-> w.sem, picker |-> w.picker, kind |-> kind,
   status |-> status, ts |-> ts, entry |-> entry, rpc |-> rpc,
   ended |-> NoLookup, released |-> 0]

\* The outcome o once the lookup object rpc, whose callback has run, is deleted
Deleted(o, rpc) ==
  [o EXCEPT !.sem = LookupRpcDtor(@, rpc), !.ended = rpc,
            !.released = LookupRpcDtor(o.sem, rpc) - o.sem]

Fatal(w) ==
  Outcome([w EXCEPT !.cache.fatal = TRUE], "fatal", "Fatal", NullTs, NoEntry, NoLookup)

\* The first server of the list, followers or not
FirstNotIn_First(servers, followers) ==
  IF Len(servers) = 0 THEN NullTs ELSE servers[1]

\* PickLeader's loop over the replicas: the first server not in followers_copy
FirstNotIn(servers, followers) ==
  LET idx == {i \in 1..Len(servers) : servers[i] \notin followers}
  IN IF idx = {} THEN NullTs ELSE servers[CHOOSE i \in idx : \A j \in idx : i <= j]

\* MetaCacheServerPicker::MarkReplicaNotLeader
MarkReplicaNotLeader(p, replica) ==
  [p EXCEPT !.followers = @ \cup {replica}, !.reported_ok = @ \cup {replica},
            !.reported_any = @ \cup {replica}]

\* The outcome of a chain that ends in SendRpcSlowPath, slow being what it left
SlowPathOutcome(w, slow) ==
  Outcome([w EXCEPT !.sem = slow.sem], "pending", "", NullTs, NoEntry, slow.rpc)

RECURSIVE PickLeader(_, _, _)
RECURSIVE ByKeyAfterFastPath(_, _, _, _, _, _, _)
RECURSIVE ByIdAfterFastPath(_, _, _, _, _, _)
RECURSIVE LookUpTabletCb(_, _, _, _)
RECURSIVE InvokeCallback(_, _, _, _, _, _)
RECURSIVE LookupTabletByKey(_, _, _, _, _, _, _)
RECURSIVE LookupTabletById(_, _, _, _, _)

\* user_cb_(status) of a lookup
InvokeCallback(w, t, cb, status, entry, depth) ==
  IF cb = "picker" THEN LookUpTabletCb(w, t, status, depth)
  ELSE Outcome(w, "callback", status, NullTs, entry, NoLookup)

\* LookupTabletByKey from line 1304 on, with what the fast path returned
ByKeyAfterFastPath(w, t, cb, table, lookup_type, fastpath, depth) ==
  IF fastpath.status # "Incomplete"
  THEN InvokeCallback(w, t, cb, fastpath.status, fastpath.entry, depth)
  ELSE SlowPathOutcome(
         w, LookupRpc_SendRpcSlowPath(
              w.sem, NewLookupRpc(cb, table, fastpath.partition_key, lookup_type)))

\* MetaCache::LookupTabletByKey at time t
LookupTabletByKey(w, t, cb, table, partition_key, lookup_type, depth) ==
  ByKeyAfterFastPath(w, t, cb, table, lookup_type,
                     DoFastPathLookup(w.cache, t, table, partition_key, lookup_type),
                     depth)

\* LookupTabletById from line 1326 on, with what the fast path returned
ByIdAfterFastPath(w, t, cb, tablet_id, fastpath, depth) ==
  IF fastpath.status # "Incomplete"
  THEN InvokeCallback(w, t, cb, fastpath.status, fastpath.entry, depth)
  ELSE SlowPathOutcome(
         w, LookupRpcById_SendRpcSlowPath(w.sem, NewLookupRpcById(cb, tablet_id)))

\* MetaCache::LookupTabletById at time t
LookupTabletById(w, t, cb, tablet_id, depth) ==
  ByIdAfterFastPath(w, t, cb, tablet_id, DoFastPathLookupById(w.cache, t, tablet_id),
                    depth)

\* PickLeader that does not look at the tablet's stale flag
PickLeader_IgnoreStale(w, t, depth) ==
  LET p == w.picker
      tablet == w.cache.tablets[p.tablet]
      cached == LeaderTServer(tablet)
      marked_as_follower == cached \in p.followers
      demoted == IF cached # NullTs /\ marked_as_follower
                 THEN MarkTServerAsFollower(tablet, cached) ELSE tablet
      guess == FirstNotIn(GetRemoteTabletServers(demoted), p.followers)
      leader == IF cached # NullTs /\ ~marked_as_follower THEN cached ELSE guess
      picked == IF cached # NullTs /\ ~marked_as_follower THEN tablet
                ELSE IF guess # NullTs THEN MarkTServerAsLeader(demoted, guess)
                ELSE demoted
      w1 == [w EXCEPT !.cache.tablets[p.tablet] = picked]
  IN IF depth = 0 THEN Fatal(w)
     ELSE IF leader # NullTs
     THEN Outcome(w1, "picked", w.proxy, leader, NoEntry, NoLookup)
     ELSE IF p.has_table
     THEN LookupTabletByKey(w1, t, "picker", p.table, tablet.partition.lower,
                            "kPoint", depth - 1)
     ELSE LookupTabletById(w1, t, "picker", tablet.tablet_id, depth - 1)

\* MetaCacheServerPicker::PickLeader at time t, with depth frames of stack left
PickLeader(w, t, depth) ==
  LET p == w.picker
      tablet == w.cache.tablets[p.tablet]
      cached == LeaderTServer(tablet)
      marked_as_follower == cached \in p.followers
      demoted == IF cached # NullTs /\ marked_as_follower
                 THEN MarkTServerAsFollower(tablet, cached) ELSE tablet
      guess == FirstNotIn(GetRemoteTabletServers(demoted), p.followers)
      leader == IF tablet.stale THEN NullTs
                ELSE IF cached # NullTs /\ ~marked_as_follower THEN cached
                ELSE guess
      picked == IF tablet.stale THEN tablet
                ELSE IF cached # NullTs /\ ~marked_as_follower THEN tablet
                ELSE IF guess # NullTs THEN MarkTServerAsLeader(demoted, guess)
                ELSE demoted
      w1 == [w EXCEPT !.cache.tablets[p.tablet] = picked]
  IN IF depth = 0 THEN Fatal(w)
     ELSE IF leader # NullTs
     THEN Outcome(w1, "picked", w.proxy, leader, NoEntry, NoLookup)
     ELSE IF p.has_table
     THEN LookupTabletByKey(w1, t, "picker", p.table, tablet.partition.lower,
                            "kPoint", depth - 1)
     ELSE LookupTabletById(w1, t, "picker", tablet.tablet_id, depth - 1)

\* The locals of a PickLeader call followed line by line: leader, replicas and
\* followers_copy.  since and reported are history: followers_ when the call read the
\* cached leader, and the servers MarkReplicaNotLeader added from then to the choice.
NoPick ==
  [pc |-> "idle", leader |-> NullTs, replicas |-> <<>>, followers_copy |-> {},
   since |-> {}, reported |-> {}]

\* MetaCacheServerPicker::PickLeader from line 498 on, with the leader it chose
PickLeaderFrom(w, t, leader, depth) ==
  IF depth = 0 THEN Fatal(w)
  ELSE IF leader # NullTs
  THEN Outcome(w, "picked", w.proxy, leader, NoEntry, NoLookup)
  ELSE IF w.picker.has_table
  THEN LookupTabletByKey(w, t, "picker", w.picker.table,
                         w.cache.tablets[w.picker.tablet].partition.lower,
                         "kPoint", depth - 1)
  ELSE LookupTabletById(w, t, "picker", w.cache.tablets[w.picker.tablet].tablet_id,
                        depth - 1)

\* LookUpTabletCb that keeps the followers
LookUpTabletCb_KeepFollowers(w, t, status, depth) ==
  IF status # "OK"
  THEN Outcome(w, "picked", status, NullTs, NoEntry, NoLookup)
  ELSE PickLeader(w, t, depth)

\* MetaCacheServerPicker::LookUpTabletCb
LookUpTabletCb(w, t, status, depth) ==
  LET w1 == [w EXCEPT !.picker.followers = {}, !.picker.reported_any = {},
                      !.picker.reported_ok = IF status = "OK" THEN {} ELSE @]
  IN IF status # "OK"
     THEN Outcome(w1, "picked", status, NullTs, NoEntry, NoLookup)
     ELSE PickLeader(w1, t, depth)

\* LookupRpc::SendRpc that deletes the object on a fast-path hit without
\* running the user callback
RetryAfterFastPath_NoCallback(w, t, rpc, fastpath, depth) ==
  IF fastpath.status # "Incomplete"
  THEN Deleted(Outcome(w, "pending", "", NullTs, NoEntry, NoLookup), rpc)
  ELSE SlowPathOutcome(
         w, LookupRpc_SendRpcSlowPath(
              w.sem, [rpc EXCEPT !.partition_key = fastpath.partition_key]))

\* LookupRpc::SendRpc from line 864 on, with what the fast path returned
RetryAfterFastPath(w, t, rpc, fastpath, depth) ==
  IF fastpath.status # "Incomplete"
  THEN Deleted(InvokeCallback(w, t, rpc.cb, fastpath.status, fastpath.entry, depth), rpc)
  ELSE SlowPathOutcome(
         w, LookupRpc_SendRpcSlowPath(
              w.sem, [rpc EXCEPT !.partition_key = fastpath.partition_key]))

\* LookupRpc::SendRpc, run by a delayed retry
LookupRpc_SendRpc(w, t, rpc, depth) ==
  RetryAfterFastPath(w, t, rpc,
                     DoFastPathLookup(w.cache, t, rpc.table, rpc.partition_key,
                                      rpc.lookup_type),
                     depth)

\* LookupRpcById::SendRpc from line 671 on, with what the fast path returned
RetryByIdAfterFastPath(w, t, rpc, fastpath, depth) ==
  IF fastpath.status # "Incomplete"
  THEN Deleted(InvokeCallback(w, t, rpc.cb, fastpath.status, fastpath.entry, depth), rpc)
  ELSE SlowPathOutcome(w, LookupRpcById_SendRpcSlowPath(w.sem, rpc))

\* LookupRpcById::SendRpc, run by a delayed retry
LookupRpcById_SendRpc(w, t, rpc, depth) ==
  RetryByIdAfterFastPath(w, t, rpc, DoFastPathLookupById(w.cache, t, rpc.tablet_id),
                         depth)

\* RetryLookupIfNecessary: the status to retry with, or "" for no retry
RetryLookupIfNecessary(status, resp) ==
  IF RetryOrReconnectIfNecessary(status) THEN status
  ELSE IF status = "OK" /\ resp.error = "ServiceUnavailable" THEN "ServiceUnavailable"
  ELSE ""

\* The status RetryLookupIfNecessary leaves in *status when it does not retry
StatusFromPB(status, resp) ==
  IF status = "OK" /\ resp.error # "none" THEN resp.error ELSE status

\* LookupRpc::SendRpcCb from line 930 on, r being what ProcessLookupResponse
\* returned: the status is replaced by NotFound when *cache_entry is not a
\* tablet, the user callback runs, the object is deleted
LookupRpc_Processed(w, t, rpc, r, depth) ==
  IF r.cache.fatal THEN Fatal(w)
  ELSE Deleted(InvokeCallback([w EXCEPT !.cache = r.cache], t, rpc.cb,
                              IF is_non_covered_range(r.entry) THEN "NotFound"
                              ELSE r.status,
                              r.entry, depth),
               rpc)

\* LookupRpc::SendRpcCb at time t with the status of the RPC layer and resp_
LookupRpc_SendRpcCb(w, t, rpc, status, resp, depth) ==
  IF RetryLookupIfNecessary(status, resp) # ""
  THEN Outcome(w, "pending", "", NullTs, NoEntry,
               DelayedRetry(rpc, RetryLookupIfNecessary(status, resp)))
  ELSE IF StatusFromPB(status, resp) # "OK"
  THEN Deleted(InvokeCallback(w, t, rpc.cb, StatusFromPB(status, resp), NoEntry, depth),
               rpc)
  ELSE LookupRpc_Processed(
         w, t, rpc,
         ProcessGetTableLocationsResponse(
           w.cache, t, rpc.table, rpc.partition_key, rpc.lookup_type = "kPoint",
           resp, locations_to_fetch(rpc.lookup_type)),
         depth)

\* LookupRpcById::SendRpcCb from line 719 on, r being what
\* ProcessGetTabletLocationsResponse returned
LookupRpcById_Processed(w, t, rpc, r, depth) ==
  IF r.cache.fatal THEN Fatal(w)
  ELSE Deleted(InvokeCallback([w EXCEPT !.cache = r.cache], t, rpc.cb, r.status,
                              r.entry, depth),
               rpc)

\* LookupRpcById::SendRpcCb at time t
LookupRpcById_SendRpcCb(w, t, rpc, status, resp, depth) ==
  IF RetryLookupIfNecessary(status, resp) # ""
  THEN Outcome(w, "pending", "", NullTs, NoEntry,
               DelayedRetry(rpc, RetryLookupIfNecessary(status, resp)))
  ELSE IF StatusFromPB(status, resp) # "OK"
  THEN Deleted(InvokeCallback(w, t, rpc.cb, StatusFromPB(status, resp), NoEntry, depth),
               rpc)
  ELSE LookupRpcById_Processed(
         w, t, rpc, ProcessGetTabletLocationsResponse(w.cache, t, rpc.tablet_id, resp),
         depth)

----------------------------------------------------------------------------
(* The state *)

Cache ==
  [ts_registry |-> ts_registry, ts_cache |-> ts_cache, tablets |-> tablets,
   tablets_by_id |-> tablets_by_id, by_key |-> tablets_by_table_and_key,
   entry_by_id |-> entry_by_tablet_id, fatal |-> crashed]

SetCacheInit ==
  /\ ts_registry = EmptyCache.ts_registry
  /\ ts_cache = EmptyCache.ts_cache
  /\ tablets = EmptyCache.tablets
  /\ tablets_by_id = EmptyCache.tablets_by_id
  /\ tablets_by_table_and_key = EmptyCache.by_key
  /\ entry_by_tablet_id = EmptyCache.entry_by_id
  /\ crashed = FALSE

SetCache(c) ==
  /\ ts_registry' = c.ts_registry
  /\ ts_cache' = c.ts_cache
  /\ tablets' = c.tablets
  /\ tablets_by_id' = c.tablets_by_id
  /\ tablets_by_table_and_key' = c.by_key
  /\ entry_by_tablet_id' = c.entry_by_id
  /\ crashed' = c.fatal

\* A call record; the fields a call does not use keep these values.
\* ended is the kind of the lookup object the call deleted ("" for none),
\* acquired and released the permits that object had obtained and gave back.
NoCall ==
  [op |-> "none", table |-> "", key |-> EmptyKey, type |-> "",
   tablet_id |-> "", ts |-> NullTs, status |-> "", entry |-> NoEntry,
   kind |-> "", ended |-> "", acquired |-> 0, released |-> 0]

\* The record of a call of op, before its outcome is known
Call(op) == [NoCall EXCEPT !.op = op]

LookupIds == 1..MaxLookups

\* The world a call chain starts in
World(proxy) ==
  [cache |-> Cache, sem |-> master_lookup_sem, picker |-> picker, proxy |-> proxy]

\* The state a call chain o leaves, with its lookup object (if any) in slot
\* l, and the record of the call
SetWorld(o, l, call) ==
  /\ \A ref \in DOMAIN o.cache.tablets : ref[2] <= MaxGen
  /\ SetCache(o.cache)
  /\ master_lookup_sem' = o.sem
  /\ picker' = o.picker
  /\ lookups' = [lookups EXCEPT ![l] = o.rpc]
  /\ last' = [call EXCEPT !.kind = o.kind, !.status = o.status, !.ts = o.ts,
                          !.entry = o.entry, !.ended = o.ended.kind,
                          !.acquired = o.ended.acquired, !.released = o.released]

\* The state an ingestion that returned r leaves, and the record of the call
SetIngested(r, call) ==
  /\ \A ref \in DOMAIN r.cache.tablets : ref[2] <= MaxGen
  /\ SetCache(r.cache)
  /\ last' = [call EXCEPT !.status = r.status]

\* SetWorld with gens RemoteTablet objects per tablet id
SetWorldWithin(o, l, call, gens) ==
  /\ \A ref \in DOMAIN o.cache.tablets : ref[2] <= gens
  /\ SetCache(o.cache)
  /\ master_lookup_sem' = o.sem
  /\ picker' = o.picker
  /\ lookups' = [lookups EXCEPT ![l] = o.rpc]
  /\ last' = [call EXCEPT !.kind = o.kind, !.status = o.status, !.ts = o.ts,
                          !.entry = o.entry, !.ended = o.ended.kind,
                          !.acquired = o.ended.acquired, !.released = o.released]

\* SetIngested with gens RemoteTablet objects per tablet id
SetIngestedWithin(r, call, gens) ==
  /\ \A ref \in DOMAIN r.cache.tablets : ref[2] <= gens
  /\ SetCache(r.cache)
  /\ last' = [call EXCEPT !.status = r.status]

----------------------------------------------------------------------------
(* Inputs *)

ReplicaChoices == {ReplicasLeader, ReplicasNoLeader, ReplicasBadIdx}

\* Tablet lists the master can answer with: at most MaxLocs tablets, sorted
\* by lower bound and pairwise disjoint
MasterLists == {l \in TabletLists : Len(l) <= MaxLocs /\ SortedDisjoint(l)}

\* Responses to GetTableLocations with tablet lists, replica lists and TTLs
\* drawn from the given sets
TableResponsesOf(lists, choices, ttls) ==
  UNION {{GetTableLocationsResponsePB(ids, reps, ttl) :
            reps \in [1..Len(ids) -> choices], ttl \in ttls} : ids \in lists}

\* Responses to GetTabletLocations for tablet id: the tablet, or nothing
TabletResponsesOf(id, choices) ==
  {GetTableLocationsResponsePB(ids, [i \in 1..Len(ids) |-> reps], 0) :
     ids \in {<<>>, <<id>>}, reps \in choices}

LookupTypes == {"kPoint", "kLowerBound"}

\* What the RPC layer hands to SendRpcCb
RpcStatuses == {"OK", "NetworkError", "TimedOut"}

----------------------------------------------------------------------------
(* Locks: what each call acquires and releases, in the order of its code *)

MaxThreads == 2    \* threads calling into the client at once

Threads == 1..MaxThreads

\* MetaCache::lock_ (percpu_rwlock), RemoteTablet::lock_, RemoteTabletServer::lock_
\* and MetaCacheServerPicker::lock_ (simple_spinlock)
MetaCacheLock == <<"MetaCache", "lock_">>
RemoteTabletLock(tablet_id) == <<"RemoteTablet", tablet_id>>
RemoteTabletServerLock(uuid) == <<"RemoteTabletServer", uuid>>
PickerLock == <<"MetaCacheServerPicker", "lock_">>

\* std::lock_guard<...> l(lock) around a body
LockGuard(lock, body) ==
  <<[do |-> "lock", on |-> lock]>> \o body \o <<[do |-> "unlock", on |-> lock]>>

\* shared_lock<rw_spinlock> l(lock) around a body
SharedLock(lock, body) ==
  <<[do |-> "lock_shared", on |-> lock]>> \o body \o <<[do |-> "unlock", on |-> lock]>>

\* one program after the other
RECURSIVE InTurn(_)
InTurn(progs) ==
  IF progs = <<>> THEN <<>> ELSE Head(progs) \o InTurn(Tail(progs))

\* RemoteTabletServer::ToString
ToStringLocks(uuid) == LockGuard(RemoteTabletServerLock(uuid), <<>>)

\* RemoteTabletServer::Update
UpdateLocks(uuid) == LockGuard(RemoteTabletServerLock(uuid), <<>>)

\* RemoteTabletServer::InitProxy: the lock is released before the callback runs
InitProxyLocks(uuid) == LockGuard(RemoteTabletServerLock(uuid), <<>>)

\* RemoteTablet::Refresh: the new replica list is built first, then swapped in under the lock
RefreshLocks(tablet_id) == LockGuard(RemoteTabletLock(tablet_id), <<>>)

\* RemoteTablet::MarkReplicaFailed with the server's lock taken first and the tablet's inside it
MarkReplicaFailedLocks_ServerFirst(tablet_id, uuid) ==
  LockGuard(RemoteTabletServerLock(uuid), LockGuard(RemoteTabletLock(tablet_id), <<>>))

\* RemoteTablet::MarkReplicaFailed: the warning it logs calls ts->ToString() under the lock
MarkReplicaFailedLocks(tablet_id, uuid) ==
  LockGuard(RemoteTabletLock(tablet_id), ToStringLocks(uuid))

\* RemoteTablet::LeaderTServer, HasLeader, GetRemoteTabletServers,
\* MarkTServerAsLeader, MarkTServerAsFollower
LeaderTServerLocks(tablet_id) == LockGuard(RemoteTabletLock(tablet_id), <<>>)
HasLeaderLocks(tablet_id) == LeaderTServerLocks(tablet_id)
GetRemoteTabletServersLocks(tablet_id) == LockGuard(RemoteTabletLock(tablet_id), <<>>)
MarkTServerAsLeaderLocks(tablet_id) == LockGuard(RemoteTabletLock(tablet_id), <<>>)
MarkTServerAsFollowerLocks(tablet_id) == LockGuard(RemoteTabletLock(tablet_id), <<>>)

\* MetaCache::UpdateTabletServerUnlocked for each server of a response
UpdateTabletServersLocks(uuids) ==
  InTurn([i \in 1..Len(uuids) |-> UpdateLocks(uuids[i])])

\* MetaCache::ProcessGetTabletLocationsResponse
ProcessGetTabletLocationsResponseLocks(tablet_id, uuids) ==
  LockGuard(MetaCacheLock, UpdateTabletServersLocks(uuids) \o RefreshLocks(tablet_id))

\* MetaCache::ProcessGetTableLocationsResponse
ProcessGetTableLocationsResponseLocks(tablet_ids, uuids) ==
  LockGuard(MetaCacheLock,
            InTurn([i \in 1..Len(tablet_ids) |->
                      UpdateTabletServersLocks(uuids) \o RefreshLocks(tablet_ids[i])]))

\* MetaCache::DoFastPathLookup: HasLeader is asked after the shared lock is gone
DoFastPathLookupLocks(tablet_id) ==
  SharedLock(MetaCacheLock, <<>>) \o HasLeaderLocks(tablet_id)

\* MetaCache::DoFastPathLookupById
DoFastPathLookupByIdLocks(tablet_id) ==
  SharedLock(MetaCacheLock, <<>>) \o HasLeaderLocks(tablet_id)

\* MetaCache::ClearNonCoveredRangeEntries
ClearNonCoveredRangeEntriesLocks == LockGuard(MetaCacheLock, <<>>)

\* MetaCache::ClearCache
ClearCacheLocks == LockGuard(MetaCacheLock, <<>>)

\* MetaCache::MarkTSFailed: logs ts->ToString(), then every tablet of tablets_by_id_
MarkTSFailedLocks(uuid, tablet_ids) ==
  ToStringLocks(uuid)
    \o SharedLock(MetaCacheLock,
                  InTurn([i \in 1..Len(tablet_ids) |->
                            MarkReplicaFailedLocks(tablet_ids[i], uuid)]))

\* MetaCacheServerPicker::MarkReplicaNotLeader
MarkReplicaNotLeaderLocks == LockGuard(PickerLock, <<>>)

\* MetaCacheServerPicker::PickLeader, up to the choice of a leader
PickLeaderChoiceLocks(tablet_id, was_follower) ==
  LeaderTServerLocks(tablet_id)
    \o LockGuard(PickerLock, <<>>)
    \o (IF was_follower THEN MarkTServerAsFollowerLocks(tablet_id) ELSE <<>>)
    \o GetRemoteTabletServersLocks(tablet_id)
    \o LockGuard(PickerLock, <<>>)

\* MetaCacheServerPicker::PickLeader: a leader is found and its proxy initialised,
\* or none is and the tablet is looked up again
PickLeaderLocks(tablet_id, was_follower, leader) ==
  PickLeaderChoiceLocks(tablet_id, was_follower)
    \o (IF leader = NullTs
          THEN DoFastPathLookupLocks(tablet_id)
          ELSE MarkTServerAsLeaderLocks(tablet_id) \o InitProxyLocks(leader))

\* MetaCacheServerPicker::LookUpTabletCb
LookUpTabletCbLocks(tablet_id, leader) ==
  LockGuard(PickerLock, <<>>) \o PickLeaderLocks(tablet_id, FALSE, leader)

\* control leaves the subsystem: a master RPC ("rpc"), a delayed retry ("retry"),
\* DNS resolution ("dns"), a user callback or pick completion ("callback")
Leave(what) == <<[do |-> "leave", on |-> <<"outside", what>>]>>

\* RemoteTabletServer::InitProxy without l.unlock(): the callback runs inside the lock
InitProxyCalls_CallbackLocked(uuid, has_proxy) ==
  IF has_proxy
    THEN LockGuard(RemoteTabletServerLock(uuid), Leave("callback"))
    ELSE LockGuard(RemoteTabletServerLock(uuid), <<>>) \o Leave("dns")

\* RemoteTabletServer::InitProxy: with a proxy, l.unlock() and cb(Status::OK());
\* without one, the host and port are read under the lock and DNS resolution starts after it
InitProxyCalls(uuid, has_proxy) ==
  LockGuard(RemoteTabletServerLock(uuid), <<>>)
    \o Leave(IF has_proxy THEN "callback" ELSE "dns")

\* RemoteTabletServer::DnsResolutionFinished: the proxies are published under the
\* lock, the callback is invoked after it; on an error no lock is taken
DnsResolutionFinishedCalls(uuid, resolved) ==
  (IF resolved THEN LockGuard(RemoteTabletServerLock(uuid), <<>>) ELSE <<>>)
    \o Leave("callback")

\* MetaCache::LookupTabletByKey, LookupRpc::SendRpc: the fast path, then the callback
\* or LookupRpc::SendRpcSlowPath: a delayed retry without a permit, the master RPC with one
LookupTabletByKeyCalls(tablet_id, then) ==
  DoFastPathLookupLocks(tablet_id) \o Leave(then)

\* MetaCache::LookupTabletById, LookupRpcById::SendRpc
LookupTabletByIdCalls(tablet_id, then) ==
  DoFastPathLookupByIdLocks(tablet_id) \o Leave(then)

\* LookupRpc::SendRpcCb: a retry is scheduled before anything else, or the response
\* is processed and the user callback invoked
LookupRpc_SendRpcCbCalls(tablet_ids, retried) ==
  IF retried
    THEN Leave("retry")
    ELSE ProcessGetTableLocationsResponseLocks(tablet_ids, <<"ts1", "ts2">>)
           \o Leave("callback")

\* LookupRpcById::SendRpcCb
LookupRpcById_SendRpcCbCalls(tablet_id, retried) ==
  IF retried
    THEN Leave("retry")
    ELSE ProcessGetTabletLocationsResponseLocks(tablet_id, <<"ts1", "ts2">>)
           \o Leave("callback")

\* MetaCacheServerPicker::PickLeader to the point where it hands over: to
\* RemoteTabletServer::InitProxy with a leader, to MetaCache::LookupTabletByKey without
PickLeaderCalls(tablet_id, was_follower, leader, has_proxy, then) ==
  PickLeaderChoiceLocks(tablet_id, was_follower)
    \o (IF leader = NullTs
          THEN LookupTabletByKeyCalls(tablet_id, then)
          ELSE MarkTServerAsLeaderLocks(tablet_id) \o InitProxyCalls(leader, has_proxy))

\* MetaCacheServerPicker::LookUpTabletCb: followers_ is cleared under the picker's
\* lock; then the callback on an error, PickLeader otherwise
LookUpTabletCbCalls(tablet_id, ok, leader) ==
  LockGuard(PickerLock, <<>>)
    \o (IF ok
          THEN PickLeaderCalls(tablet_id, FALSE, leader, TRUE, "rpc")
          ELSE Leave("callback"))

\* the calls that hand control to the outside
LeavePrograms ==
  {InitProxyCalls(ts, p) : ts \in {"ts1", "ts2"}, p \in BOOLEAN}
    \cup {DnsResolutionFinishedCalls(ts, r) : ts \in {"ts1", "ts2"}, r \in BOOLEAN}
    \cup {LookupTabletByKeyCalls("A", then) : then \in {"callback", "retry", "rpc"}}
    \cup {LookupTabletByIdCalls("B", then) : then \in {"callback", "rpc"}}
    \cup {LookupRpc_SendRpcCbCalls(<<"A">>, r) : r \in BOOLEAN}
    \cup {LookupRpcById_SendRpcCbCalls("B", r) : r \in BOOLEAN}
    \cup {PickLeaderCalls("A", TRUE, ts, p, "rpc") : ts \in {"ts1", NullTs}, p \in BOOLEAN}
    \cup {LookUpTabletCbCalls("A", ok, "ts2") : ok \in BOOLEAN}

LockedTablets == {"A", "B"}
LockedServers == {"ts1", "ts2"}

\* the calls a thread may make
LockPrograms ==
  {ProcessGetTableLocationsResponseLocks(ids, <<"ts1", "ts2">>) : ids \in {<<"A">>, <<"A", "B">>}}
    \cup {ProcessGetTabletLocationsResponseLocks(id, <<"ts1", "ts2">>) : id \in LockedTablets}
    \cup {DoFastPathLookupLocks(id) : id \in LockedTablets}
    \cup {DoFastPathLookupByIdLocks(id) : id \in LockedTablets}
    \cup {ClearNonCoveredRangeEntriesLocks, ClearCacheLocks, MarkReplicaNotLeaderLocks}
    \cup {MarkTSFailedLocks(ts, ids) : ts \in LockedServers, ids \in {<<"A">>, <<"A", "B">>}}
    \cup {MarkReplicaFailedLocks(id, ts) : id \in LockedTablets, ts \in LockedServers}
    \cup {PickLeaderLocks("A", f, ts) : f \in BOOLEAN, ts \in LockedServers \cup {NullTs}}
    \cup {LookUpTabletCbLocks("A", ts) : ts \in LockedServers \cup {NullTs}}
    \cup LeavePrograms

\* a thread outside any call
Idle == [prog |-> <<>>, pc |-> 0]

\* the acquisitions of prog[1..pc] not released since
HeldAt(prog, pc) ==
  {prog[i] : i \in {i \in 1..pc : /\ prog[i].do \in {"lock", "lock_shared"}
                                  /\ \A j \in (i + 1)..pc :
                                       ~(prog[j].do = "unlock" /\ prog[j].on = prog[i].on)}}

Held(th) == HeldAt(threads[th].prog, threads[th].pc)

Busy(th) == threads[th].pc < Len(threads[th].prog)

NextStep(th) == threads[th].prog[threads[th].pc + 1]

\* a spinlock is free; the rw lock admits readers together
CanAcquire(step) ==
  \A o \in Threads : \A h \in Held(o) :
    h.on = step.on => (step.do = "lock_shared" /\ h.do = "lock_shared")

CanStep(th) ==
  Busy(th) /\ (NextStep(th).do \in {"unlock", "leave"} \/ CanAcquire(NextStep(th)))

\* the thread after its next step; a call that returned leaves it idle
Stepped(th) ==
  IF threads[th].pc + 1 = Len(threads[th].prog)
    THEN Idle
    ELSE [threads[th] EXCEPT !.pc = @ + 1]

----------------------------------------------------------------------------
(* Actions *)

Init ==
  /\ now = 0
  /\ SetCacheInit
  /\ master_lookup_sem = kMasterLookupPermits
  /\ lookups = [l \in LookupIds |-> NoLookup]
  /\ pool = 0
  /\ picker = NoPicker
  /\ last = NoCall
  /\ threads = [th \in Threads |-> Idle]
  /\ picking = NoPick

\* The clock advances
Tick ==
  /\ ~crashed
  /\ now < MaxTime
  /\ now' = now + 1
  /\ last' = NoCall
  /\ UNCHANGED <<cacheVars, crashed, lookupVars, picker>>
  /\ UNCHANGED <<threads, picking>>

\* A table-locations response is ingested by a caller that holds one
IngestTableLocations(table, partition_key, is_exact_lookup, resp, max) ==
  /\ ~crashed
  /\ Len(resp.tablet_locations) <= max
  /\ SetIngested(ProcessGetTableLocationsResponse(Cache, now, table, partition_key,
                                                  is_exact_lookup, resp, max),
                 [Call("ProcessGetTableLocationsResponse") EXCEPT !.table = table])
  /\ UNCHANGED <<now, lookupVars, picker>>
  /\ UNCHANGED <<threads, picking>>

\* A tablet-locations (by id) response is ingested by a caller that holds one
IngestTabletLocations(tablet_id, resp) ==
  /\ ~crashed
  /\ SetIngested(ProcessGetTabletLocationsResponse(Cache, now, tablet_id, resp),
                 [Call("ProcessGetTabletLocationsResponse") EXCEPT
                    !.tablet_id = tablet_id])
  /\ UNCHANGED <<now, lookupVars, picker>>
  /\ UNCHANGED <<threads, picking>>

\* A caller looks a key up: MetaCache::LookupTabletByKey
UserLookupByKey(l, table, partition_key, lookup_type) ==
  /\ ~crashed
  /\ lookups[l].pc = "free"
  /\ SetWorld(LookupTabletByKey(World("OK"), now, "user", table, partition_key,
                                lookup_type, MaxDepth),
              l,
              [Call("LookupTabletByKey") EXCEPT
                 !.table = table, !.key = partition_key, !.type = lookup_type])
  /\ UNCHANGED <<now, pool>>
  /\ UNCHANGED <<threads, picking>>

\* A caller looks a tablet id up: MetaCache::LookupTabletById
UserLookupById(l, tablet_id) ==
  /\ ~crashed
  /\ lookups[l].pc = "free"
  /\ SetWorld(LookupTabletById(World("OK"), now, "user", tablet_id, MaxDepth), l,
              [Call("LookupTabletById") EXCEPT !.tablet_id = tablet_id])
  /\ UNCHANGED <<now, pool>>
  /\ UNCHANGED <<threads, picking>>

\* The master's answer, or the RPC layer's error, reaches a lookup object:
\* SendRpcCb.  A scheduled retry that finds the deadline passed ends the
\* same way, with TimedOut.
RpcCompletes(l, status, resp) ==
  /\ ~crashed
  /\ \/ lookups[l].pc = "rpc"
     \/ lookups[l].pc = "retry" /\ status = "TimedOut"
  /\ status = "OK" \/ resp = ErrorResponsePB("none")
  /\ lookups[l].kind = "key" =>
       Len(resp.tablet_locations) <= locations_to_fetch(lookups[l].lookup_type)
  /\ lookups[l].kind = "id" =>
       /\ Len(resp.tablet_locations) <= 1
       /\ \A i \in 1..Len(resp.tablet_locations) :
            resp.tablet_locations[i].tablet_id = lookups[l].tablet_id
  /\ SetWorld(IF lookups[l].kind = "key"
              THEN LookupRpc_SendRpcCb(World("OK"), now, lookups[l], status, resp,
                                       MaxDepth)
              ELSE LookupRpcById_SendRpcCb(World("OK"), now, lookups[l], status, resp,
                                           MaxDepth),
              l, Call("SendRpcCb"))
  /\ UNCHANGED <<now, pool>>
  /\ UNCHANGED <<threads, picking>>

\* A delayed retry runs: SendRpc
RetryFires(l) ==
  /\ ~crashed
  /\ lookups[l].pc = "retry"
  /\ SetWorld(IF lookups[l].kind = "key"
              THEN LookupRpc_SendRpc(World("OK"), now, lookups[l], MaxDepth)
              ELSE LookupRpcById_SendRpc(World("OK"), now, lookups[l], MaxDepth),
              l, Call("SendRpc"))
  /\ UNCHANGED <<now, pool>>
  /\ UNCHANGED <<threads, picking>>

\* A LookupRpc that is only counted reaches SendRpcSlowPath and obtains a permit
PoolIssues ==
  /\ ~crashed
  /\ pool <= kMasterLookupPermits
  /\ LET slow == LookupRpc_SendRpcSlowPath(
                   master_lookup_sem, NewLookupRpc("user", "T1", EmptyKey, "kPoint"))
     IN /\ slow.rpc.pc = "rpc"
        /\ master_lookup_sem' = slow.sem
        /\ pool' = pool + 1
  /\ last' = NoCall
  /\ UNCHANGED <<now, cacheVars, crashed, lookups, picker>>
  /\ UNCHANGED <<threads, picking>>

\* A LookupRpc that is only counted ends with an error of the RPC layer and
\* is destroyed
PoolCompletes ==
  /\ ~crashed
  /\ pool > 0
  /\ master_lookup_sem' =
       LookupRpcDtor(master_lookup_sem,
                     [NoLookup EXCEPT !.kind = "key", !.has_permit = TRUE])
  /\ pool' = pool - 1
  /\ last' = NoCall
  /\ UNCHANGED <<now, cacheVars, crashed, lookups, picker>>
  /\ UNCHANGED <<threads, picking>>

\* A MetaCacheServerPicker is constructed for a tablet of the cache
CreatePicker(ref, has_table) ==
  /\ ~crashed
  /\ picker = NoPicker
  /\ ref \in DOMAIN tablets
  /\ picker' = NewPicker(ref, has_table, IF has_table THEN "T1" ELSE "")
  /\ last' = NoCall
  /\ UNCHANGED <<now, cacheVars, crashed, lookupVars>>
  /\ UNCHANGED <<threads, picking>>

\* A write was rejected by a follower: MetaCacheServerPicker::MarkReplicaNotLeader
ReportNotLeader(replica) ==
  /\ ~crashed
  /\ picker # NoPicker
  /\ replica \in DOMAIN ts_cache
  /\ picker' = MarkReplicaNotLeader(picker, replica)
  /\ last' = [Call("MarkReplicaNotLeader") EXCEPT !.ts = replica]
  /\ UNCHANGED <<now, cacheVars, crashed, lookupVars>>
  /\ UNCHANGED <<threads, picking>>

\* MetaCacheServerPicker::MarkServerFailed
ReportServerFailed(replica) ==
  /\ ~crashed
  /\ picker # NoPicker
  /\ replica \in DOMAIN ts_cache
  /\ tablets' = [tablets EXCEPT ![picker.tablet] = MarkReplicaFailed(@, replica)]
  /\ last' = [Call("MarkServerFailed") EXCEPT !.ts = replica]
  /\ UNCHANGED <<now, ts_registry, ts_cache, tablets_by_id, tablets_by_table_and_key,
                 entry_by_tablet_id, crashed, lookupVars, picker>>
  /\ UNCHANGED <<threads, picking>>

\* MetaCacheServerPicker::MarkResourceNotFound
ReportResourceNotFound ==
  /\ ~crashed
  /\ picker # NoPicker
  /\ tablets' = [tablets EXCEPT ![picker.tablet] = MarkStale(@)]
  /\ last' = Call("MarkResourceNotFound")
  /\ UNCHANGED <<now, ts_registry, ts_cache, tablets_by_id, tablets_by_table_and_key,
                 entry_by_tablet_id, crashed, lookupVars, picker>>
  /\ UNCHANGED <<threads, picking>>

\* A caller asks the picker for the leader: MetaCacheServerPicker::PickLeader.
\* proxy is the status InitProxy completes with.
UserPickLeader(l, proxy) ==
  /\ ~crashed
  /\ picker # NoPicker
  /\ lookups[l].pc = "free"
  /\ SetWorld(PickLeader(World(proxy), now, MaxDepth), l, Call("PickLeader"))
  /\ UNCHANGED <<now, pool>>
  /\ UNCHANGED <<threads, picking>>

\* RemoteTablet::MarkTServerAsLeader, called on a tablet object for a server
\* of the cache
CallMarkTServerAsLeader(ref, server) ==
  /\ ~crashed
  /\ ref \in DOMAIN tablets
  /\ server \in DOMAIN ts_cache
  /\ tablets' = [tablets EXCEPT ![ref] = MarkTServerAsLeader(@, server)]
  /\ last' = [Call("MarkTServerAsLeader") EXCEPT !.tablet_id = ref[1], !.ts = server]
  /\ UNCHANGED <<now, ts_registry, ts_cache, tablets_by_id, tablets_by_table_and_key,
                 entry_by_tablet_id, crashed, lookupVars, picker>>
  /\ UNCHANGED <<threads, picking>>

\* A caller invalidates the non-covered ranges of a table:
\* MetaCache::ClearNonCoveredRangeEntries
CallClearNonCoveredRangeEntries(table_id) ==
  /\ ~crashed
  /\ SetCache(ClearNonCoveredRangeEntries(Cache, table_id))
  /\ last' = [Call("ClearNonCoveredRangeEntries") EXCEPT !.table = table_id]
  /\ UNCHANGED <<now, lookupVars, picker>>
  /\ UNCHANGED <<threads, picking>>

\* A caller drops the cache: MetaCache::ClearCache
CallClearCache ==
  /\ ~crashed
  /\ SetCache(ClearCache(Cache))
  /\ last' = Call("ClearCache")
  /\ UNCHANGED <<now, lookupVars, picker>>
  /\ UNCHANGED <<threads, picking>>

\* RemoteTablet::MarkTServerAsFollower, called on a tablet object for a
\* server of the cache
CallMarkTServerAsFollower(ref, server) ==
  /\ ~crashed
  /\ ref \in DOMAIN tablets
  /\ server \in DOMAIN ts_cache
  /\ tablets' = [tablets EXCEPT ![ref] = MarkTServerAsFollower(@, server)]
  /\ last' = [Call("MarkTServerAsFollower") EXCEPT !.tablet_id = ref[1], !.ts = server]
  /\ UNCHANGED <<now, ts_registry, ts_cache, tablets_by_id, tablets_by_table_and_key,
                 entry_by_tablet_id, crashed, lookupVars, picker>>
  /\ UNCHANGED <<threads, picking>>

\* RemoteTablet::MarkReplicaFailed, called on a tablet object a caller holds
CallMarkReplicaFailed(ref, server) ==
  /\ ~crashed
  /\ ref \in DOMAIN tablets
  /\ server \in DOMAIN ts_registry
  /\ tablets' = [tablets EXCEPT ![ref] = MarkReplicaFailed(@, server)]
  /\ last' = [Call("MarkReplicaFailed") EXCEPT !.tablet_id = ref[1], !.ts = server]
  /\ UNCHANGED <<now, ts_registry, ts_cache, tablets_by_id, tablets_by_table_and_key,
                 entry_by_tablet_id, crashed, lookupVars, picker>>
  /\ UNCHANGED <<threads, picking>>

\* RemoteTablet::MarkStale, called on a tablet object a caller holds
CallMarkStale(ref) ==
  /\ ~crashed
  /\ ref \in DOMAIN tablets
  /\ tablets' = [tablets EXCEPT ![ref] = MarkStale(@)]
  /\ last' = [Call("MarkStale") EXCEPT !.tablet_id = ref[1]]
  /\ UNCHANGED <<now, ts_registry, ts_cache, tablets_by_id, tablets_by_table_and_key,
                 entry_by_tablet_id, crashed, lookupVars, picker>>
  /\ UNCHANGED <<threads, picking>>

\* MetaCache::MarkTSFailed for a server the registry owns
CallMarkTSFailed(ts) ==
  /\ ~crashed
  /\ ts \in DOMAIN ts_registry
  /\ SetCache(MarkTSFailed(Cache, ts))
  /\ last' = [Call("MarkTSFailed") EXCEPT !.ts = ts]
  /\ UNCHANGED <<now, lookupVars, picker>>
  /\ UNCHANGED <<threads, picking>>

\* Ingestion into the range map of one table, at one instant
IngestResponses ==
  TableResponsesOf(MasterLists, {ReplicasLeader, ReplicasBadIdx}, {0})

NextIngest ==
  \/ \E table \in TableIds, k \in Keys, exact \in BOOLEAN,
        resp \in IngestResponses, max \in 1..(MaxLocs + 1) :
       IngestTableLocations(table, k, exact, resp, max)

SpecIngest == Init /\ [][NextIngest]_vars

\* Lookups by key and by id while the clock runs and TTLs expire
LookupKeys == {0, 1, 2}

LookupResponses ==
  TableResponsesOf({<<>>, <<"A", "B">>}, {ReplicasLeader}, {0, MaxTtl})

NextLookup ==
  \/ Tick
  \/ \E k \in {0, 1}, resp \in LookupResponses :
       IngestTableLocations("T1", k, TRUE, resp, MaxLocs + 1)
  \/ \E resp \in TabletResponsesOf("A", {ReplicasLeader}) :
       IngestTabletLocations("A", resp)
  \/ \E l \in LookupIds, k \in LookupKeys, type \in LookupTypes :
       UserLookupByKey(l, "T1", k, type)
  \/ \E l \in LookupIds : UserLookupById(l, "A")
  \/ \E l \in LookupIds, status \in RpcStatuses,
        resp \in LookupResponses \cup {ErrorResponsePB("none")} :
       RpcCompletes(l, status, resp)
  \/ \E l \in LookupIds : RetryFires(l)

SpecLookup == Init /\ [][NextLookup]_vars

\* Lookups competing for the master lookup permits
PermitResponses ==
  TableResponsesOf({<<"A">>}, {ReplicasLeader, ReplicasNoLeader}, {0})
    \cup {ErrorResponsePB("none"), ErrorResponsePB("ServiceUnavailable")}

NextPermit ==
  \/ PoolIssues
  \/ PoolCompletes
  \/ \E resp \in TableResponsesOf({<<"A">>}, {ReplicasLeader}, {0}) :
       IngestTableLocations("T1", 1, TRUE, resp, 1)
  \/ \E l \in LookupIds, k \in {1, 2} : UserLookupByKey(l, "T1", k, "kPoint")
  \/ \E l \in LookupIds : UserLookupById(l, "A")
  \/ \E l \in LookupIds, status \in RpcStatuses, resp \in PermitResponses :
       RpcCompletes(l, status, resp)
  \/ \E l \in LookupIds : RetryFires(l)

SpecPermit == Init /\ [][NextPermit]_vars

\* Ingestion into two tables and invalidation.  Table T1 holds tablets A and
\* C, table T2 holds tablet B; nothing is ever ingested for table T3.
InvalidateTables == {"T1", "T2", "T3"}

InvalidateResponses(table) ==
  IF table = "T1"
  THEN TableResponsesOf({<<>>, <<"A">>, <<"A", "C">>}, {ReplicasLeader}, {0, MaxTtl})
  ELSE TableResponsesOf({<<>>, <<"B">>}, {ReplicasSingle}, {0, MaxTtl})

NextInvalidate ==
  \/ \E table \in {"T1", "T2"}, k \in {1} :
       \E resp \in InvalidateResponses(table) :
         IngestTableLocations(table, k, TRUE, resp, MaxLocs + 1)
  \/ \E id \in {"A"} :
       \E resp \in TabletResponsesOf(id, {ReplicasLeader}) :
         IngestTabletLocations(id, resp)
  \/ \E table_id \in InvalidateTables : CallClearNonCoveredRangeEntries(table_id)
  \/ CallClearCache
  \/ \E ts \in Servers : CallMarkTSFailed(ts)

SpecInvalidate == Init /\ [][NextInvalidate]_vars

\* The replicas of tablet A: refreshes with every kind of replica list, the
\* callers' marks on the tablet object, expiry and ClearCache
ReplicaLists ==
  {ReplicasLeader, ReplicasNoLeader, ReplicasTwoLeaders, ReplicasNone, ReplicasBadIdx}

ReplicaResponses == TableResponsesOf({<<"A">>}, ReplicaLists, {0, MaxTtl})

NextReplicas ==
  \/ Tick
  \/ \E k \in {0, 1}, resp \in ReplicaResponses :
       IngestTableLocations("T1", k, TRUE, resp, MaxLocs)
  \/ \E resp \in TabletResponsesOf("A", ReplicaLists) : IngestTabletLocations("A", resp)
  \/ \E ref \in DOMAIN tablets, server \in Servers : CallMarkTServerAsLeader(ref, server)
  \/ \E ref \in DOMAIN tablets, server \in Servers : CallMarkTServerAsFollower(ref, server)
  \/ \E ref \in DOMAIN tablets, server \in Servers : CallMarkReplicaFailed(ref, server)
  \/ \E ref \in DOMAIN tablets : CallMarkStale(ref)
  \/ \E ts \in Servers : CallMarkTSFailed(ts)
  \/ CallClearCache

SpecReplicas == Init /\ [][NextReplicas]_vars

\* A server picker on tablet A, its callers' feedback and its lookups
PickerResponses ==
  TableResponsesOf({<<>>, <<"A">>}, {ReplicasLeader, ReplicasNoLeader, ReplicasSingle}, {0})

NextPicker ==
  \/ \E resp \in PickerResponses : IngestTableLocations("T1", 1, TRUE, resp, 1)
  \/ \E ref \in DOMAIN tablets, has_table \in BOOLEAN : CreatePicker(ref, has_table)
  \/ \E replica \in Servers : ReportNotLeader(replica)
  \/ \E replica \in Servers : ReportServerFailed(replica)
  \/ ReportResourceNotFound
  \/ \E l \in LookupIds, proxy \in {"OK", "NetworkError"} : UserPickLeader(l, proxy)
  \/ \E l \in LookupIds, status \in RpcStatuses,
        resp \in PickerResponses \cup {ErrorResponsePB("none")} :
       RpcCompletes(l, status, resp)
  \/ \E l \in LookupIds : RetryFires(l)
  \/ \E ref \in DOMAIN tablets, server \in Servers : CallMarkTServerAsLeader(ref, server)
  \/ \E ts \in Servers : CallMarkTSFailed(ts)

SpecPicker == Init /\ [][NextPicker]_vars

\* A thread enters one of the calls
ThreadCalls(th, prog) ==
  /\ ~crashed
  /\ threads[th] = Idle
  /\ threads' = [threads EXCEPT ![th] = [prog |-> prog, pc |-> 0]]
  /\ UNCHANGED <<now, cacheVars, crashed, lookupVars, picker, last, picking>>

\* A thread takes the lock its call asks for next, once the lock admits it
ThreadAcquires(th) ==
  /\ ~crashed
  /\ Busy(th)
  /\ NextStep(th).do \in {"lock", "lock_shared"}
  /\ CanAcquire(NextStep(th))
  /\ threads' = [threads EXCEPT ![th] = Stepped(th)]
  /\ UNCHANGED <<now, cacheVars, crashed, lookupVars, picker, last, picking>>

\* A thread leaves the scope of a lock
ThreadReleases(th) ==
  /\ ~crashed
  /\ Busy(th)
  /\ NextStep(th).do = "unlock"
  /\ threads' = [threads EXCEPT ![th] = Stepped(th)]
  /\ UNCHANGED <<now, cacheVars, crashed, lookupVars, picker, last, picking>>

\* A thread hands control to the outside: an RPC, a retry, DNS resolution or a callback
ThreadLeaves(th) ==
  /\ ~crashed
  /\ Busy(th)
  /\ NextStep(th).do = "leave"
  /\ threads' = [threads EXCEPT ![th] = Stepped(th)]
  /\ UNCHANGED <<now, cacheVars, crashed, lookupVars, picker, last, picking>>

\* Threads calling into the cache, the tablets and the picker at once
NextLocks ==
  \/ \E th \in Threads, prog \in LockPrograms : ThreadCalls(th, prog)
  \/ \E th \in Threads : ThreadAcquires(th)
  \/ \E th \in Threads : ThreadReleases(th)
  \/ \E th \in Threads : ThreadLeaves(th)

SpecLocks == Init /\ [][NextLocks]_vars

\* PickLeader, lines 452-454: the stale flag is read, then the cached leader
PickReadsLeader ==
  /\ ~crashed
  /\ picker # NoPicker
  /\ picking.pc = "idle"
  /\ picking' = IF tablets[picker.tablet].stale
                THEN [NoPick EXCEPT !.pc = "chosen", !.since = picker.followers]
                ELSE [NoPick EXCEPT !.pc = "leader_read",
                                    !.leader = LeaderTServer(tablets[picker.tablet]),
                                    !.since = picker.followers]
  /\ UNCHANGED <<now, cacheVars, crashed, lookupVars, picker, last, threads>>

\* PickLeader, lines 455-470: is the leader in followers_ ?  If so it is demoted in
\* the tablet and forgotten; if not it is the choice
PickChecksFollower ==
  /\ ~crashed
  /\ picking.pc = "leader_read"
  /\ IF picking.leader # NullTs /\ picking.leader \in picker.followers
     THEN /\ tablets' = [tablets EXCEPT ![picker.tablet] =
                           MarkTServerAsFollower(@, picking.leader)]
          /\ picking' = [picking EXCEPT !.pc = "no_leader", !.leader = NullTs]
     ELSE /\ tablets' = tablets
          /\ picking' = IF picking.leader # NullTs
                        THEN [picking EXCEPT !.pc = "chosen",
                                             !.reported = picker.followers \ picking.since]
                        ELSE [picking EXCEPT !.pc = "no_leader"]
  /\ UNCHANGED <<now, ts_registry, ts_cache, tablets_by_id, tablets_by_table_and_key,
                 entry_by_tablet_id, crashed, lookupVars, picker, last, threads>>

\* PickLeader, lines 472-479: the tablet's replicas are read and followers_ is copied
PickCopiesFollowers ==
  /\ ~crashed
  /\ picking.pc = "no_leader"
  /\ picking' = [picking EXCEPT !.pc = "copied",
                                !.replicas = GetRemoteTabletServers(tablets[picker.tablet]),
                                !.followers_copy = picker.followers]
  /\ UNCHANGED <<now, cacheVars, crashed, lookupVars, picker, last, threads>>

\* PickLeader, lines 481-493: the first replica not in followers_copy is the choice,
\* and is marked as the leader in the tablet
PickGuesses ==
  /\ ~crashed
  /\ picking.pc = "copied"
  /\ picking' = [picking EXCEPT !.pc = "chosen",
                                !.leader = FirstNotIn(picking.replicas, picking.followers_copy),
                                !.reported = picker.followers \ picking.since]
  /\ tablets' = IF FirstNotIn(picking.replicas, picking.followers_copy) # NullTs
                THEN [tablets EXCEPT ![picker.tablet] =
                        MarkTServerAsLeader(@, FirstNotIn(picking.replicas,
                                                          picking.followers_copy))]
                ELSE tablets
  /\ UNCHANGED <<now, ts_registry, ts_cache, tablets_by_id, tablets_by_table_and_key,
                 entry_by_tablet_id, crashed, lookupVars, picker, last, threads>>

\* PickLeader, lines 498-537: without a leader the tablet is looked up, with one
\* its proxy is initialised and the pick completes
PickHandsOver(l, proxy) ==
  /\ ~crashed
  /\ picking.pc = "chosen"
  /\ lookups[l].pc = "free"
  /\ SetWorld(PickLeaderFrom(World(proxy), now, picking.leader, MaxDepth), l,
              [Call("PickLeader") EXCEPT !.ts = picking.leader])
  /\ picking' = NoPick
  /\ UNCHANGED <<now, pool, threads>>

\* A picker on tablet A whose PickLeader runs line by line, while its callers
\* report followers and another picker of the tablet marks its own guess.  Once the
\* picker exists, master responses arrive only through its own lookups.
PickRaceResponses == TableResponsesOf({<<"A">>}, {ReplicasLeader}, {MaxTtl})

NextPickRace ==
  \/ /\ picker = NoPicker
     /\ \E resp \in PickRaceResponses : IngestTableLocations("T1", 1, TRUE, resp, 1)
  \/ \E ref \in DOMAIN tablets : CreatePicker(ref, TRUE)
  \/ \E replica \in Servers : ReportNotLeader(replica)
  \/ PickReadsLeader
  \/ PickChecksFollower
  \/ PickCopiesFollowers
  \/ PickGuesses
  \/ \E l \in LookupIds : PickHandsOver(l, "OK")
  \/ \E l \in LookupIds, resp \in PickRaceResponses : RpcCompletes(l, "OK", resp)
  \/ \E ref \in DOMAIN tablets, server \in Servers : CallMarkTServerAsLeader(ref, server)

SpecPickRace == Init /\ [][NextPickRace]_vars

\* Point lookups of keys inside and outside the tablets the master lists
PointKeys == {1, 2, 3}

PointResponses ==
  TableResponsesOf({<<>>, <<"A">>, <<"B">>}, {ReplicasLeader}, {0, MaxTtl})

NextPoint ==
  \/ Tick
  \/ \E l \in LookupIds, k \in PointKeys : UserLookupByKey(l, "T1", k, "kPoint")
  \/ \E l \in LookupIds, resp \in PointResponses : RpcCompletes(l, "OK", resp)

SpecPoint == Init /\ [][NextPoint]_vars

\* A table-locations response is ingested, also for tablets that ClearCache forgot:
\* they get a second RemoteTablet object
ReingestTableLocations(table, partition_key, is_exact_lookup, resp, max) ==
  /\ ~crashed
  /\ Len(resp.tablet_locations) <= max
  /\ SetIngestedWithin(ProcessGetTableLocationsResponse(Cache, now, table, partition_key,
                                                        is_exact_lookup, resp, max),
                       [Call("ProcessGetTableLocationsResponse") EXCEPT !.table = table],
                       MaxRegen)
  /\ UNCHANGED <<now, lookupVars, picker, threads, picking>>

\* A tablet-locations (by id) response is ingested, also for a tablet that ClearCache forgot
ReingestTabletLocations(tablet_id, resp) ==
  /\ ~crashed
  /\ SetIngestedWithin(ProcessGetTabletLocationsResponse(Cache, now, tablet_id, resp),
                       [Call("ProcessGetTabletLocationsResponse") EXCEPT
                          !.tablet_id = tablet_id],
                       MaxRegen)
  /\ UNCHANGED <<now, lookupVars, picker, threads, picking>>

\* Ingestion by key and by id, ClearNonCoveredRangeEntries and ClearCache, with
\* tablets ingested again after ClearCache
RegenResponses ==
  TableResponsesOf({<<>>, <<"A">>, <<"A", "C">>}, {ReplicasLeader}, {MaxTtl})

NextRegen ==
  \/ \E resp \in RegenResponses : ReingestTableLocations("T1", 1, TRUE, resp, MaxLocs + 1)
  \/ \E id \in {"A", "C"} :
       \E resp \in TabletResponsesOf(id, {ReplicasLeader, ReplicasSingle}) :
         ReingestTabletLocations(id, resp)
  \/ CallClearNonCoveredRangeEntries("T1")
  \/ CallClearCache

SpecRegen == Init /\ [][NextRegen]_vars

\* A response of a master that does not intern the servers: every tablet lists its
\* replicas in deprecated_replicas, each with its own ts_info, and ts_infos is empty
OldStyleReplicas == <<[permanent_uuid |-> "ts1", role |-> "LEADER"],
                      [permanent_uuid |-> "ts2", role |-> "FOLLOWER"]>>

OldStyleResponsePB(ids, ttl) ==
  [error |-> "none", ttl_millis |-> ttl,
   tablet_locations |->
     [i \in 1..Len(ids) |->
        [TabletLocationsPB(ids[i], <<>>) EXCEPT !.deprecated_replicas = OldStyleReplicas]],
   ts_infos |-> <<>>]

\* Ingestion by key and by id of the sorted, disjoint responses of such a master
OldStyleLists == {<<>>, <<"A">>, <<"A", "C">>}

NextOldStyle ==
  \/ Tick
  \/ \E k \in {1, 2}, ids \in OldStyleLists, ttl \in {0, MaxTtl} :
       IngestTableLocations("T1", k, TRUE, OldStyleResponsePB(ids, ttl), MaxLocs + 1)
  \/ \E id \in {"A", "B"} :
       \E ids \in {<<>>, <<id>>} : IngestTabletLocations(id, OldStyleResponsePB(ids, 0))

SpecOldStyle == Init /\ [][NextOldStyle]_vars

\* MetaCacheServerPicker::PickLeader asked of a picker whose RemoteTablet may have
\* been replaced in the cache by a later object for the same tablet id
RepickLeader(l, proxy) ==
  /\ ~crashed
  /\ picker # NoPicker
  /\ lookups[l].pc = "free"
  /\ SetWorldWithin(PickLeader(World(proxy), now, MaxDepth), l, Call("PickLeader"),
                    MaxRegen)
  /\ UNCHANGED <<now, pool>>
  /\ UNCHANGED <<threads, picking>>

\* SendRpcCb of a lookup the picker started, the cache holding replaced objects
RelookupCompletes(l, status, resp) ==
  /\ ~crashed
  /\ lookups[l].pc = "rpc"
  /\ status = "OK" \/ resp = ErrorResponsePB("none")
  /\ lookups[l].kind = "key" =>
       Len(resp.tablet_locations) <= locations_to_fetch(lookups[l].lookup_type)
  /\ lookups[l].kind = "id" =>
       /\ Len(resp.tablet_locations) <= 1
       /\ \A i \in 1..Len(resp.tablet_locations) :
            resp.tablet_locations[i].tablet_id = lookups[l].tablet_id
  /\ SetWorldWithin(IF lookups[l].kind = "key"
                    THEN LookupRpc_SendRpcCb(World("OK"), now, lookups[l], status, resp,
                                             MaxDepth)
                    ELSE LookupRpcById_SendRpcCb(World("OK"), now, lookups[l], status,
                                                 resp, MaxDepth),
                    l, Call("SendRpcCb"), MaxRegen)
  /\ UNCHANGED <<now, pool>>
  /\ UNCHANGED <<threads, picking>>

RepickResponses == TableResponsesOf({<<"A">>}, {ReplicasLeader}, {MaxTtl})

\* A picker whose tablet is forgotten by ClearCache and ingested again
NextRepick ==
  \/ \E resp \in RepickResponses : ReingestTableLocations("T1", 1, TRUE, resp, 1)
  \/ CallClearCache
  \/ \E ref \in DOMAIN tablets, has_table \in BOOLEAN : CreatePicker(ref, has_table)
  \/ ReportResourceNotFound
  \/ \E l \in LookupIds : RepickLeader(l, "OK")
  \/ \E l \in LookupIds, resp \in RepickResponses : RelookupCompletes(l, "OK", resp)

SpecRepick == Init /\ [][NextRepick]_vars

----------------------------------------------------------------------------
(* Properties *)

\* The range map of a table, empty if the table has none
RangeMap(c, table) == IF table \in DOMAIN c.by_key THEN c.by_key[table] ELSE EmptyMap

\* The key ranges [lower, upper) of two entries intersect
Intersect(h, e1, e2) ==
  /\ \/ upper_bound_partition_key(h, e2) = EmptyKey
     \/ lower_bound_partition_key(h, e1) < upper_bound_partition_key(h, e2)
  /\ \/ upper_bound_partition_key(h, e1) = EmptyKey
     \/ lower_bound_partition_key(h, e2) < upper_bound_partition_key(h, e1)

\* Every input of ProcessGetTableLocationsResponse the ingestion specification draws
IngestInputs ==
  {in \in [table : TableIds, key : Keys, exact : BOOLEAN,
           resp : IngestResponses, max : 1..(MaxLocs + 1)] :
     Len(in.resp.tablet_locations) <= in.max}

IngestOf(c, t, in) ==
  ProcessGetTableLocationsResponse(c, t, in.table, in.key, in.exact, in.resp, in.max)

\* C1: after any sequence of ingestions no two entries of a table's range map
\* have intersecting key ranges, and every entry is keyed at its lower bound
\* (a covered entry at its tablet's partition start).
C1_NonOverlap ==
  \A table \in DOMAIN tablets_by_table_and_key :
    LET m == tablets_by_table_and_key[table]
    IN /\ \A k1 \in DOMAIN m : \A k2 \in DOMAIN m :
            k1 # k2 => ~Intersect(tablets, m[k1], m[k2])
       /\ \A k \in DOMAIN m : lower_bound_partition_key(tablets, m[k]) = k

\* C2: for every key k, if a non-stale entry of the range map contains k the
\* by-key fast path returns exactly that entry, and if no entry contains k it
\* returns a miss.
C2_FloorLookup ==
  \A table \in TableIds : \A k \in Keys :
    LET m == RangeMap(Cache, table)
        found == LookupEntryByKeyFastPath(Cache, now, table, k)
    IN /\ \A j \in DOMAIN m :
            (~EntryStale(tablets, m[j], now) /\ Contains(tablets, m[j], k))
              => found = m[j]
       /\ (\A j \in DOMAIN m : ~Contains(tablets, m[j], k)) => found = NoEntry

\* What idempotence compares: keys, kinds, bounds and tablet ids, not
\* expiration times
Shape(c, table) ==
  LET m == RangeMap(c, table)
  IN [k \in DOMAIN m |->
        [kind |-> m[k].kind,
         lower |-> lower_bound_partition_key(c.tablets, m[k]),
         upper |-> upper_bound_partition_key(c.tablets, m[k]),
         tablet_id |-> IF m[k].kind = "tablet" THEN m[k].tablet[1] ELSE ""]]

\* C8: in every reachable cache state, ingesting any response a second time
\* (at the same or a later instant) leaves the range map with the keys,
\* kinds, bounds and tablet ids the first ingestion left.
C8_IdempotentIngestion ==
  ~crashed =>
    \A in \in IngestInputs :
      LET once == IngestOf(Cache, now, in)
      IN \A later \in 0..1 :
           Shape(IngestOf(once.cache, now + later, in).cache, in.table)
             = Shape(once.cache, in.table)

\* C8 witness: the state is the result of an ingestion that indexed tablets
\* and non-covered ranges, and ingesting a two-tablet response again leaves
\* all of its four or more entries as they are.
C8_Witness ==
  /\ last.op = "ProcessGetTableLocationsResponse" /\ last.status = "OK"
  /\ Cardinality(DOMAIN RangeMap(Cache, last.table)) >= 4
  /\ \E in \in IngestInputs :
       /\ in.table = last.table
       /\ Len(in.resp.tablet_locations) = 2
       /\ IngestOf(Cache, now, in).status = "OK"
       /\ Shape(IngestOf(Cache, now, in).cache, in.table) = Shape(Cache, in.table)

\* C9: when a non-empty response is ingested with a key below the first
\* tablet's lower bound, the map afterwards holds the non-covered entry
\* ["", first_lower) at "" and no other key below first_lower; with a key at
\* or above first_lower the entries below first_lower are left as they were.
C9_InitialNonCovered ==
  ~crashed =>
    \A in \in IngestInputs :
      Len(in.resp.tablet_locations) > 0 =>
        LET first_lower == in.resp.tablet_locations[1].partition_key_start
            before == RangeMap(Cache, in.table)
            after == RangeMap(IngestOf(Cache, now, in).cache, in.table)
            below(m) == MapKeep(m, {k \in DOMAIN m : k < first_lower})
        IN IF in.key < first_lower
           THEN below(after) =
                  MapPut(EmptyMap, EmptyKey,
                         NonCoveredEntry(now + in.resp.ttl_millis, EmptyKey,
                                         first_lower))
           ELSE below(after) = below(before)

\* C9 witness: a state built by ingestion that indexes a tablet below the
\* first tablet of a response requested with a key below that tablet too:
\* ingesting the response erases that entry and leaves the initial
\* non-covered range in its place.
C9_Witness ==
  /\ last.op = "ProcessGetTableLocationsResponse"
  /\ \E in \in IngestInputs :
       /\ Len(in.resp.tablet_locations) > 0
       /\ in.key < in.resp.tablet_locations[1].partition_key_start
       /\ \E k \in DOMAIN RangeMap(Cache, in.table) :
            /\ k < in.resp.tablet_locations[1].partition_key_start
            /\ RangeMap(Cache, in.table)[k].kind = "tablet"
            /\ k \notin DOMAIN RangeMap(IngestOf(Cache, now, in).cache, in.table)
       /\ RangeMap(IngestOf(Cache, now, in).cache, in.table)[EmptyKey].upper_bound
            = in.resp.tablet_locations[1].partition_key_start

\* C3 as stated: every entry whose expiration time is at or before now (the
\* boundary now = expiration included) is stale, and neither the by-key nor
\* the by-id fast path returns it.
C3_StaleAtExpiration ==
  /\ \A table \in DOMAIN tablets_by_table_and_key :
       \A k \in DOMAIN tablets_by_table_and_key[table] :
         LET e == tablets_by_table_and_key[table][k]
         IN e.expiration_time <= now =>
              /\ EntryStale(tablets, e, now)
              /\ \A key \in Keys : LookupEntryByKeyFastPath(Cache, now, table, key) # e
  /\ \A id \in DOMAIN entry_by_tablet_id :
       LET e == entry_by_tablet_id[id]
       IN e.expiration_time <= now =>
            /\ EntryStale(tablets, e, now)
            /\ LookupEntryByIdFastPath(Cache, now, id) # e

\* C3 amended: every entry whose expiration time is strictly before now is
\* stale, and neither the by-key nor the by-id fast path returns it; at
\* now = expiration the entry is still served.
C3_StaleAfterExpiration ==
  /\ \A table \in DOMAIN tablets_by_table_and_key :
       \A k \in DOMAIN tablets_by_table_and_key[table] :
         LET e == tablets_by_table_and_key[table][k]
         IN /\ e.expiration_time < now =>
                 /\ EntryStale(tablets, e, now)
                 /\ \A key \in Keys :
                      LookupEntryByKeyFastPath(Cache, now, table, key) # e
            /\ (e.expiration_time = now /\ is_non_covered_range(e)) =>
                 ~EntryStale(tablets, e, now)
  /\ \A id \in DOMAIN entry_by_tablet_id :
       LET e == entry_by_tablet_id[id]
       IN e.expiration_time < now =>
            /\ EntryStale(tablets, e, now)
            /\ LookupEntryByIdFastPath(Cache, now, id) # e

\* C3 witness: a key lookup has just gone to the master although a tablet
\* entry with a leader and a clear stale flag contains its key, because that
\* entry expired; a by-id entry has expired too.
C3_Witness ==
  /\ last.op = "LookupTabletByKey" /\ last.kind = "pending"
  /\ \E k \in DOMAIN RangeMap(Cache, last.table) :
       LET e == RangeMap(Cache, last.table)[k]
       IN /\ e.kind = "tablet"
          /\ e.expiration_time < now
          /\ Contains(tablets, e, last.key)
          /\ ~tablets[e.tablet].stale
          /\ HasLeader(tablets[e.tablet])
  /\ \E id \in DOMAIN entry_by_tablet_id : entry_by_tablet_id[id].expiration_time < now

\* C4 as stated: for every tablet object and every server x, after
\* MarkTServerAsLeader(x) exactly one replica has role LEADER, it is x's, and
\* every other replica that was LEADER is FOLLOWER.
C4_ExactlyOneLeader ==
  \A ref \in DOMAIN tablets : \A x \in Servers :
    LET before == tablets[ref].replicas
        after == MarkTServerAsLeader(tablets[ref], x).replicas
        leaders == {i \in 1..Len(after) : after[i].role = "LEADER"}
    IN /\ Cardinality(leaders) = 1
       /\ \A i \in leaders : after[i].ts = x
       /\ \A i \in 1..Len(before) :
            (before[i].role = "LEADER" /\ before[i].ts # x) => after[i].role = "FOLLOWER"

\* C4 amended: after MarkTServerAsLeader(x) the replicas with role LEADER are
\* exactly the replicas of x: one if x has a replica in the list, none if it
\* has not; every other replica that was LEADER is FOLLOWER, and nothing else
\* of the list changes.
C4_LeaderIffReplicaOfX ==
  \A ref \in DOMAIN tablets : \A x \in Servers :
    LET before == tablets[ref].replicas
        after == MarkTServerAsLeader(tablets[ref], x).replicas
        leaders == {i \in 1..Len(after) : after[i].role = "LEADER"}
        mine == {i \in 1..Len(before) : before[i].ts = x}
    IN /\ Len(after) = Len(before)
       /\ leaders = mine
       /\ mine # {} => Cardinality(leaders) = 1
       /\ \A i \in 1..Len(before) :
            /\ after[i].ts = before[i].ts
            /\ after[i].failed = before[i].failed
            /\ i \notin mine => after[i].role = "FOLLOWER"

\* C4 witness: MarkTServerAsLeader has just been called for a server that has
\* no replica in the tablet's list, and the list is left without a LEADER.
C4_Witness ==
  /\ last.op = "MarkTServerAsLeader"
  /\ \E ref \in DOMAIN tablets :
       /\ ref[1] = last.tablet_id
       /\ Len(tablets[ref].replicas) > 0
       /\ \A i \in 1..Len(tablets[ref].replicas) :
            /\ tablets[ref].replicas[i].ts # last.ts
            /\ tablets[ref].replicas[i].role # "LEADER"

\* C5 as stated: a pick never delivers a server given to MarkReplicaNotLeader
\* since the last successful lookup completion of the picker.
C5_NotDeliveredSinceOkLookup ==
  (last.kind = "picked" /\ last.ts # NullTs) => last.ts \notin picker.reported_ok

\* C5 amended: a pick never delivers a server given to MarkReplicaNotLeader
\* since the last lookup completion of the picker, successful or failed; the
\* servers reported since then are all in followers_.
C5_NotDeliveredSinceLookup ==
  /\ (last.kind = "picked" /\ last.ts # NullTs) => last.ts \notin picker.reported_any
  /\ picker.reported_any \subseteq picker.followers

\* C5 witness: PickLeader has just delivered a server while the first replica
\* of the tablet, not failed, is reported as not the leader.
C5_Witness ==
  /\ last.op = "PickLeader" /\ last.kind = "picked" /\ last.ts # NullTs
  /\ picker.reported_any # {}
  /\ LET reps == tablets[picker.tablet].replicas
     IN /\ Len(reps) > 1
        /\ reps[1].ts \in picker.reported_any
        /\ ~reps[1].failed
        /\ last.ts = reps[2].ts

\* The lookups of the given kinds whose RPC is with the master
IssuedToMaster(kinds) ==
  pool + Cardinality({l \in LookupIds :
                        lookups[l].pc = "rpc" /\ lookups[l].kind \in kinds})

\* A key lookup that starts now and needs the master is refused a permit: no
\* RPC, a delayed retry with TimedOut
DeniedNow ==
  \A k \in Keys : \A type \in LookupTypes :
    LET o == LookupTabletByKey(World("OK"), now, "user", "T1", k, type, MaxDepth)
    IN o.kind = "pending" =>
         /\ o.rpc.pc = "retry"
         /\ o.rpc.retry_status = kTooManyRequests
         /\ ~o.rpc.has_permit
         /\ o.sem = master_lookup_sem

\* C6 as stated: at most 50 lookups, of either kind, have their RPC with the
\* master, and a lookup that needs the master while 50 permits are held is
\* put off with TimedOut.
C6_AtMostFiftyLookups ==
  /\ IssuedToMaster({"key", "id"}) <= kMasterLookupPermits
  /\ master_lookup_sem = 0 => DeniedNow

\* C6 amended: at most 50 key-based lookups have their RPC with the master,
\* and a key-based lookup that needs the master while 50 permits are held is
\* put off by a delayed retry with TimedOut instead of an RPC; id-based
\* lookups take no permit and are not counted.
C6_AtMostFiftyKeyLookups ==
  /\ IssuedToMaster({"key"}) <= kMasterLookupPermits
  /\ master_lookup_sem = 0 => DeniedNow
  /\ \A l \in LookupIds :
       (lookups[l].pc = "rpc" /\ lookups[l].kind = "key") => lookups[l].has_permit

\* C6 witness: 50 key-based lookups have their RPC with the master and one
\* more waits for a delayed retry, refused with TimedOut.
C6_Witness ==
  /\ master_lookup_sem = 0
  /\ IssuedToMaster({"key"}) = kMasterLookupPermits
  /\ \E l \in LookupIds :
       /\ lookups[l].kind = "key" /\ lookups[l].pc = "retry"
       /\ lookups[l].retry_status = kTooManyRequests
       /\ ~lookups[l].has_permit

\* C7: a key-based lookup obtains at most one permit in its life; when it is
\* destroyed it gives back exactly the permits it obtained; the permits
\* available and the permits held by live lookups add up to 50.
C7_PermitOncePerLookup ==
  /\ \A l \in LookupIds :
       /\ lookups[l].acquired <= 1
       /\ lookups[l].has_permit <=> lookups[l].acquired = 1
  /\ last.ended = "key" => (last.acquired <= 1 /\ last.released = last.acquired)
  /\ master_lookup_sem + pool
       + Cardinality({l \in LookupIds : lookups[l].has_permit})
     = kMasterLookupPermits

\* C7 witness: a key-based lookup that held a permit through a retry has just
\* ended on the fast path of that retry and given its permit back.
C7_Witness ==
  /\ last.op = "SendRpc" /\ last.kind = "callback" /\ last.ended = "key"
  /\ last.acquired = 1 /\ last.released = 1
  /\ master_lookup_sem + pool = kMasterLookupPermits

\* C10: a point lookup of a key that lies inside a cached non-covered entry
\* that is not stale completes at once with NotFound and that entry, takes no
\* permit and leaves no lookup object behind.
C10_PointIntoNonCovered ==
  \A table \in DOMAIN tablets_by_table_and_key :
    \A k \in DOMAIN tablets_by_table_and_key[table] : \A key \in Keys :
      LET e == tablets_by_table_and_key[table][k]
          o == LookupTabletByKey(World("OK"), now, "user", table, key, "kPoint",
                                 MaxDepth)
      IN (is_non_covered_range(e) /\ ~EntryStale(tablets, e, now)
            /\ Contains(tablets, e, key))
         => /\ o.kind = "callback" /\ o.status = "NotFound"
            /\ o.entry = e
            /\ o.sem = master_lookup_sem
            /\ o.rpc = NoLookup

\* The world of a client whose cache is c and that has no lookup in flight
FreshWorld(c) ==
  [cache |-> c, sem |-> kMasterLookupPermits, picker |-> NoPicker, proxy |-> "OK"]

\* C11: a non-empty response that is ingested with success leaves the
\* trailing non-covered entry [last_upper, "") as the only entry at or above
\* last_upper if and only if last_upper is not empty and fewer tablets than
\* max_returned_locations came back; otherwise no entry at or above
\* last_upper (above the last tablet, if it is unbounded) is created or
\* changed. After a full read into an empty cache, a lookup of a key at or
\* above last_upper misses the fast path and sends an RPC to the master.
C11_TrailingIffShortRead ==
  ~crashed =>
    \A in \in IngestInputs :
      LET n == Len(in.resp.tablet_locations)
      IN n > 0 =>
           LET last_tablet == in.resp.tablet_locations[n]
               last_upper == last_tablet.partition_key_end
               before == RangeMap(Cache, in.table)
               r == IngestOf(Cache, now, in)
               after == RangeMap(r.cache, in.table)
               from(m) == MapKeep(m, {k \in DOMAIN m : k >= last_upper})
               fresh == IngestOf(EmptyCache, now, in)
           IN /\ r.status = "OK" =>
                   IF last_upper # EmptyKey /\ n < in.max
                   THEN from(after) =
                          MapPut(EmptyMap, last_upper,
                                 NonCoveredEntry(now + in.resp.ttl_millis,
                                                 last_upper, EmptyKey))
                   ELSE IF last_upper # EmptyKey
                   THEN from(after) = from(before)
                   ELSE \A k \in DOMAIN after :
                          k > last_tablet.partition_key_start
                            => (k \in DOMAIN before /\ after[k] = before[k])
              /\ (fresh.status = "OK" /\ last_upper # EmptyKey /\ n = in.max) =>
                   \A key \in Keys : \A type \in LookupTypes :
                     key >= last_upper =>
                       LET o == LookupTabletByKey(FreshWorld(fresh.cache), now, "user",
                                                  in.table, key, type, MaxDepth)
                       IN /\ LookupEntryByKeyFastPath(fresh.cache, now, in.table, key)
                               = NoEntry
                          /\ o.kind = "pending"
                          /\ o.rpc.pc = "rpc"

\* C11 witness: a full read has just been ingested with success into a map
\* that held nothing at or above the last tablet's upper bound: the greatest
\* key of the map is a tablet with a bounded upper end, and no trailing
\* non-covered entry follows it.
C11_Witness ==
  /\ last.op = "ProcessGetTableLocationsResponse" /\ last.status = "OK"
  /\ \E k \in DOMAIN RangeMap(Cache, last.table) :
       LET m == RangeMap(Cache, last.table)
       IN /\ \A j \in DOMAIN m : j <= k
          /\ m[k].kind = "tablet"
          /\ upper_bound_partition_key(tablets, m[k]) # EmptyKey
          /\ \E in \in IngestInputs :
               /\ in.table = last.table
               /\ Len(in.resp.tablet_locations) = in.max
               /\ in.resp.tablet_locations[in.max].partition_key_start = k
               /\ IngestOf(Cache, now, in).status = "OK"
               /\ RangeMap(IngestOf(Cache, now, in).cache, in.table) = m

\* The range map that holds the one non-covered entry ["", "") and nothing else
WholeTableNonCovered(expiration_time) ==
  MapPut(EmptyMap, EmptyKey, NonCoveredEntry(expiration_time, EmptyKey, EmptyKey))

\* C12: ingesting a response without tablets replaces the table's range map,
\* whatever it held, by the single non-covered entry ["", ""); as long as
\* that entry has not expired, every point-mode and range-mode lookup of any
\* key of the table completes at once with NotFound, takes no permit and
\* sends nothing to the master.
C12_EmptyResponse ==
  ~crashed =>
    \A table \in TableIds : \A resp \in LookupResponses :
      Len(resp.tablet_locations) = 0 =>
        /\ \A k \in Keys : \A exact \in BOOLEAN : \A max \in 1..(MaxLocs + 1) :
             LET r == ProcessGetTableLocationsResponse(Cache, now, table, k, exact,
                                                       resp, max)
             IN /\ r.status = "OK"
                /\ RangeMap(r.cache, table) = WholeTableNonCovered(now + resp.ttl_millis)
                /\ r.entry = NonCoveredEntry(now + resp.ttl_millis, EmptyKey, EmptyKey)
        /\ \A t \in now..(now + resp.ttl_millis) : \A key \in Keys :
             \A type \in LookupTypes :
               LET r == ProcessGetTableLocationsResponse(Cache, now, table, EmptyKey,
                                                         TRUE, resp, 1)
                   w == [World("OK") EXCEPT !.cache = r.cache]
                   o == LookupTabletByKey(w, t, "user", table, key, type, MaxDepth)
               IN /\ o.kind = "callback" /\ o.status = "NotFound"
                  /\ o.entry = NonCoveredEntry(now + resp.ttl_millis, EmptyKey, EmptyKey)
                  /\ o.rpc = NoLookup
                  /\ o.sem = master_lookup_sem
                  /\ o.cache = r.cache

\* C12 witness: some time after a response without tablets replaced a map of
\* tablets, a lookup has just been answered NotFound from the single
\* non-covered entry, which expires at this instant; the tablets of the
\* replaced map are still known by id.
C12_Witness ==
  /\ last.op = "LookupTabletByKey" /\ last.kind = "callback"
  /\ last.status = "NotFound"
  /\ now > 0
  /\ RangeMap(Cache, last.table) = WholeTableNonCovered(now)
  /\ DOMAIN tablets_by_id # {}

\* The entries of m, taken in key order from key k on, tile the key space from
\* k to its end: each entry starts at its key and ends where the next begins
RECURSIVE TilesFrom(_, _, _)
TilesFrom(h, m, k) ==
  /\ k \in DOMAIN m
  /\ lower_bound_partition_key(h, m[k]) = k
  /\ LET upper == upper_bound_partition_key(h, m[k])
     IN IF upper = EmptyKey THEN \A j \in DOMAIN m : j <= k
        ELSE /\ upper > k
             /\ \A j \in DOMAIN m : ~(k < j /\ j < upper)
             /\ TilesFrom(h, m, upper)

\* C13: after a response is ingested with success, the map holds the
\* non-covered entry [previous.upper, current.lower) for every two
\* consecutive tablets of the response with previous.upper < current.lower,
\* and a covered entry of each returned tablet at the tablet's lower bound;
\* a short read into an empty cache, requested with a key below the first
\* tablet, leaves a map that tiles the key space from "" to "".
C13_GapsAndTablets ==
  ~crashed =>
    \A in \in IngestInputs :
      LET locs == in.resp.tablet_locations
          n == Len(locs)
          r == IngestOf(Cache, now, in)
          after == RangeMap(r.cache, in.table)
          fresh == IngestOf(EmptyCache, now, in)
      IN /\ (n > 0 /\ r.status = "OK") =>
              /\ \A i \in 1..(n - 1) :
                   locs[i].partition_key_end < locs[i + 1].partition_key_start =>
                     /\ locs[i].partition_key_end \in DOMAIN after
                     /\ after[locs[i].partition_key_end] =
                          NonCoveredEntry(now + in.resp.ttl_millis,
                                          locs[i].partition_key_end,
                                          locs[i + 1].partition_key_start)
              /\ \A i \in 1..n :
                   /\ locs[i].partition_key_start \in DOMAIN after
                   /\ after[locs[i].partition_key_start].kind = "tablet"
                   /\ after[locs[i].partition_key_start].tablet[1] = locs[i].tablet_id
         /\ (n > 0 /\ n < in.max /\ fresh.status = "OK"
               /\ in.key < locs[1].partition_key_start) =>
              TilesFrom(fresh.cache.tablets, RangeMap(fresh.cache, in.table), EmptyKey)

\* A range-mode LookupRpc for key of table whose RPC is with the master
RangeLookupInFlight(table, key) ==
  LookupRpc_SendRpcSlowPath(kMasterLookupPermits,
                            NewLookupRpc("user", table, key, "kLowerBound")).rpc

\* C14: after a range-mode (non-exact) ingestion succeeds, if the floor
\* entry of the requested key is a non-covered range with a non-empty upper
\* bound, the floor entry of that upper bound is a tablet and the lookup
\* completes OK with it; the range-mode fast path that finds a non-covered
\* entry with a non-empty upper bound finds a tablet entry at that upper
\* bound and never answers NotFound.
C14_RangeModeAdvance ==
  ~crashed =>
    /\ \A in \in IngestInputs :
         LET r == IngestOf(Cache, now, in)
             after == RangeMap(r.cache, in.table)
             e == FindFloorOrNull(after, in.key)
             o == LookupRpc_Processed(FreshWorld(Cache), now,
                                      RangeLookupInFlight(in.table, in.key), r,
                                      MaxDepth)
         IN (~in.exact /\ r.status = "OK" /\ is_non_covered_range(e)
               /\ upper_bound_partition_key(r.cache.tablets, e) # EmptyKey) =>
              LET f == FindFloorOrNull(after,
                                       upper_bound_partition_key(r.cache.tablets, e))
              IN /\ f.kind = "tablet"
                 /\ r.entry = f
                 /\ o.kind = "callback" /\ o.status = "OK" /\ o.entry = f
    /\ \A table \in TableIds : \A key \in Keys :
         LET e == LookupEntryByKeyFastPath(Cache, now, table, key)
             fast == DoFastPathLookup(Cache, now, table, key, "kLowerBound")
         IN (e # NoEntry /\ is_non_covered_range(e) /\ e.upper_bound # EmptyKey) =>
              /\ FindFloorOrNull(RangeMap(Cache, table), e.upper_bound).kind = "tablet"
              /\ fast.status # "NotFound"

\* The world a call chain left, for the next call of the same caller
WorldAfter(o, proxy) ==
  [cache |-> o.cache, sem |-> o.sem, picker |-> o.picker, proxy |-> proxy]

\* The replicas of tablet object t that have not failed and whose server is
\* not in followers
Candidates(t, followers) ==
  {i \in 1..Len(t.replicas) :
     ~t.replicas[i].failed /\ t.replicas[i].ts \notin followers}

PickerCompletions(rpc) ==
  {c \in [status : RpcStatuses,
          resp : PickerResponses \cup {ErrorResponsePB("none")}] :
     /\ c.status = "OK" \/ c.resp = ErrorResponsePB("none")
     /\ rpc.kind = "key" =>
          Len(c.resp.tablet_locations) <= locations_to_fetch(rpc.lookup_type)
     /\ rpc.kind = "id" =>
          /\ Len(c.resp.tablet_locations) <= 1
          /\ \A i \in 1..Len(c.resp.tablet_locations) :
               c.resp.tablet_locations[i].tablet_id = rpc.tablet_id}

\* SendRpcCb of the lookup object rpc, of either kind
SendRpcCbOf(rpc, c) ==
  IF rpc.kind = "key"
  THEN LookupRpc_SendRpcCb(World("OK"), now, rpc, c.status, c.resp, MaxDepth)
  ELSE LookupRpcById_SendRpcCb(World("OK"), now, rpc, c.status, c.resp, MaxDepth)

\* What the ingestion of the response c.resp for rpc returns
IngestedFor(rpc, c) ==
  IF rpc.kind = "key"
  THEN ProcessGetTableLocationsResponse(Cache, now, rpc.table, rpc.partition_key,
                                        rpc.lookup_type = "kPoint", c.resp,
                                        locations_to_fetch(rpc.lookup_type))
  ELSE ProcessGetTabletLocationsResponse(Cache, now, rpc.tablet_id, c.resp)

\* The picker with its followers forgotten
Forgetful(p) == [p EXCEPT !.followers = {}, !.reported_ok = {}, !.reported_any = {}]

\* C16: when no non-failed replica of the picker's tablet is outside
\* followers, PickLeader picks no server from the replica list: it starts
\* LookupTabletByKey (point mode, at the tablet's partition start) if the
\* picker has a table and LookupTabletById if not, and delivers nothing while
\* that lookup is pending. When a lookup of the picker completes, followers
\* is empty; a failed completion hands the error and no server to the
\* caller, a successful one continues as PickLeader on the refreshed cache.
C16_ExhaustionForcesLookup ==
  (~crashed /\ picker # NoPicker) =>
    /\ Candidates(tablets[picker.tablet], picker.followers) = {} =>
         LET tablet == tablets[picker.tablet]
             o == PickLeader(World("OK"), now, MaxDepth)
         IN /\ o.kind \in {"pending", "picked"}
            /\ o.kind = "pending" =>
                 /\ o.ts = NullTs
                 /\ o.picker = picker
                 /\ o.rpc.cb = "picker"
                 /\ IF picker.has_table
                    THEN /\ o.rpc.kind = "key"
                         /\ o.rpc.table = picker.table
                         /\ o.rpc.partition_key = tablet.partition.lower
                         /\ o.rpc.lookup_type = "kPoint"
                    ELSE /\ o.rpc.kind = "id"
                         /\ o.rpc.tablet_id = tablet.tablet_id
            /\ o.kind = "picked" =>
                 /\ o.picker.followers = {}
                 /\ o.rpc = NoLookup
                 /\ o.status # "OK" => o.ts = NullTs
    /\ \A l \in LookupIds :
         (lookups[l].cb = "picker" /\ lookups[l].pc = "rpc") =>
           \A c \in PickerCompletions(lookups[l]) :
             LET done == SendRpcCbOf(lookups[l], c)
                 r == IngestedFor(lookups[l], c)
                 ok == /\ c.status = "OK" /\ c.resp.error = "none"
                       /\ r.status = "OK" /\ ~is_non_covered_range(r.entry)
                 re == PickLeader([World("OK") EXCEPT !.cache = r.cache,
                                                      !.picker = Forgetful(picker)],
                                  now, MaxDepth)
             IN (done.kind # "pending" /\ ~done.cache.fatal) =>
                  /\ done.picker.followers = {}
                  /\ done.ended = lookups[l]
                  /\ IF ok
                     THEN /\ done.kind = re.kind /\ done.ts = re.ts
                          /\ done.status = re.status
                          /\ done.cache = re.cache /\ done.rpc = re.rpc
                     ELSE /\ done.kind = "picked" /\ done.ts = NullTs
                          /\ done.status # "OK" /\ done.rpc = NoLookup

\* C16 witness: every non-failed replica of the tablet was in followers when
\* PickLeader ran, the tablet is not stale, and PickLeader has just left a
\* lookup of the picker with the master instead of delivering a server.
C16_Witness ==
  /\ last.op = "PickLeader" /\ last.kind = "pending" /\ last.ts = NullTs
  /\ picker.followers # {}
  /\ ~tablets[picker.tablet].stale
  /\ Candidates(tablets[picker.tablet], picker.followers) = {}
  /\ \E i \in 1..Len(tablets[picker.tablet].replicas) :
       ~tablets[picker.tablet].replicas[i].failed
  /\ \E l \in LookupIds : lookups[l].cb = "picker" /\ lookups[l].pc = "rpc"

\* The pickers there may be on tablet object ref: the one of the state, if it
\* is on ref, and new ones with and without a table
PickersOn(ref) ==
  {NewPicker(ref, TRUE, "T1"), NewPicker(ref, FALSE, "")}
    \cup (IF picker.tablet = ref THEN {picker} ELSE {})

\* On every stale tablet object, PickLeader of any picker delivers no server
\* and leaves the replica list as it is: it starts a lookup, or hands on the
\* error of a lookup that completed at once
StaleForcesLookup ==
  ~crashed =>
    \A ref \in DOMAIN tablets : \A p \in PickersOn(ref) :
      \A proxy \in {"OK", "NetworkError"} :
        tablets[ref].stale =>
          LET o == PickLeader([World(proxy) EXCEPT !.picker = p], now, MaxDepth)
          IN /\ o.kind \in {"pending", "picked"}
             /\ o.ts = NullTs
             /\ o.cache.tablets[ref] = tablets[ref]
             /\ o.kind = "pending" =>
                  /\ o.rpc.cb = "picker" /\ o.rpc.pc \in {"rpc", "retry"}
                  /\ o.rpc.kind = IF p.has_table THEN "key" ELSE "id"
             /\ o.kind = "picked" => (o.status # "OK" /\ o.rpc = NoLookup)

\* A stale flag is cleared only by a step that ingests a master response
\* whose Refresh of that tablet succeeds: the replicas are then as the
\* response gave them, none of them failed
StaleUntilRefresh ==
  \A ref \in DOMAIN tablets :
    (tablets[ref].stale /\ ref \in DOMAIN tablets' /\ ~tablets'[ref].stale) =>
      /\ last'.op \in {"ProcessGetTableLocationsResponse", "SendRpcCb"}
      /\ \A i \in 1..Len(tablets'[ref].replicas) : ~tablets'[ref].replicas[i].failed

\* C17: once a tablet object is stale (MarkResourceNotFound), every
\* PickLeader of every picker of that tablet selects no replica from the
\* cached list, even if it holds a non-failed LEADER, and goes to the lookup
\* step; the tablet stays stale until a Refresh of it succeeds.
C17_StaleTablet == []StaleForcesLookup /\ [][StaleUntilRefresh]_vars

\* C17 witness: PickLeader has just left a lookup with the master for a stale
\* tablet whose cached, non-failed LEADER is not in followers.
C17_Witness ==
  /\ last.op = "PickLeader" /\ last.kind = "pending"
  /\ tablets[picker.tablet].stale
  /\ LeaderTServer(tablets[picker.tablet]) # NullTs
  /\ LeaderTServer(tablets[picker.tablet]) \notin picker.followers
  /\ \E l \in LookupIds : lookups[l].cb = "picker" /\ lookups[l].pc = "rpc"

\* The handler outcome d ran the user callback and destroyed the lookup
\* object rpc after it; no object is left to run the callback again
CalledBackAndDeleted(d, rpc) ==
  /\ d.kind = "callback" /\ d.status # ""
  /\ d.rpc = NoLookup
  /\ d.ended = rpc

\* The handler outcome d ran no callback and left the lookup object rpc
\* alive, with its RPC out or a retry scheduled
StillPending(d, rpc) ==
  /\ d.kind = "pending"
  /\ d.ended = NoLookup
  /\ d.rpc.pc \in {"rpc", "retry"}
  /\ d.rpc.kind = rpc.kind /\ d.rpc.cb = rpc.cb
  /\ d.rpc.table = rpc.table /\ d.rpc.tablet_id = rpc.tablet_id

\* What may reach a lookup object of the permit specification
PermitCompletions(rpc) ==
  {c \in [status : RpcStatuses, resp : PermitResponses] :
     /\ c.status = "OK" \/ c.resp = ErrorResponsePB("none")
     /\ rpc.pc = "retry" => c.status = "TimedOut"
     /\ rpc.kind = "id" =>
          \A i \in 1..Len(c.resp.tablet_locations) :
            c.resp.tablet_locations[i].tablet_id = rpc.tablet_id}

\* C18: a call of LookupTabletByKey or LookupTabletById either runs the user
\* callback at once, leaving no lookup object, or leaves one lookup object
\* alive and runs no callback; every handler of a live lookup object
\* (SendRpcCb with any status and response, SendRpc of a retry) either keeps
\* the object alive and runs no callback, or runs the callback once and then
\* destroys the object. So the callback runs exactly once, when the lookup
\* terminates, and never after the object is destroyed.
C18_CallbackExactlyOnce ==
  ~crashed =>
    /\ \A k \in Keys : \A type \in LookupTypes :
         LET o == LookupTabletByKey(World("OK"), now, "user", "T1", k, type, MaxDepth)
         IN \/ /\ o.kind = "callback" /\ o.rpc = NoLookup /\ o.ended = NoLookup
               /\ o.sem = master_lookup_sem
            \/ StillPending(o, NewLookupRpc("user", "T1", k, type))
    /\ \A id \in TabletIds :
         LET o == LookupTabletById(World("OK"), now, "user", id, MaxDepth)
         IN \/ o.kind = "callback" /\ o.rpc = NoLookup /\ o.ended = NoLookup
            \/ StillPending(o, NewLookupRpcById("user", id))
    /\ \A l \in LookupIds :
         lookups[l].pc # "free" =>
           /\ lookups[l].pc \in {"rpc", "retry"}
           /\ \A c \in PermitCompletions(lookups[l]) :
                LET d == SendRpcCbOf(lookups[l], c)
                IN \/ CalledBackAndDeleted(d, lookups[l])
                   \/ StillPending(d, lookups[l]) /\ d.rpc.pc = "retry"
           /\ lookups[l].pc = "retry" =>
                LET d == IF lookups[l].kind = "key"
                         THEN LookupRpc_SendRpc(World("OK"), now, lookups[l], MaxDepth)
                         ELSE LookupRpcById_SendRpc(World("OK"), now, lookups[l],
                                                    MaxDepth)
                IN \/ CalledBackAndDeleted(d, lookups[l])
                   \/ StillPending(d, lookups[l])
    /\ (last.op \in {"SendRpcCb", "SendRpc"}) =>
         (last.kind = "callback" <=> last.ended # "")
    /\ (last.op \in {"LookupTabletByKey", "LookupTabletById"}) =>
         (last.kind \in {"callback", "pending"} /\ last.ended = "")

\* C18 witness: a lookup by id has just run its user callback with an error
\* from its RPC and was destroyed, and no lookup object is left.
C18_Witness ==
  /\ last.op = "SendRpcCb" /\ last.kind = "callback" /\ last.ended = "id"
  /\ last.status \notin {"OK", ""}
  /\ \A l \in LookupIds : lookups[l] = NoLookup

\* The covered entries of range map m, as a map
CoveredEntries(m) == MapKeep(m, {k \in DOMAIN m : ~is_non_covered_range(m[k])})

\* One step of ClearNonCoveredRangeEntries(table_id), old state against new
ClearNonCoveredStep ==
  last'.op = "ClearNonCoveredRangeEntries" =>
    /\ DOMAIN tablets_by_table_and_key' = DOMAIN tablets_by_table_and_key
    /\ \A t \in DOMAIN tablets_by_table_and_key :
         tablets_by_table_and_key'[t] =
           IF t = last'.table THEN CoveredEntries(tablets_by_table_and_key[t])
           ELSE tablets_by_table_and_key[t]
    /\ tablets_by_id' = tablets_by_id
    /\ entry_by_tablet_id' = entry_by_tablet_id
    /\ tablets' = tablets
    /\ ts_cache' = ts_cache
    /\ ts_registry' = ts_registry
    /\ crashed' = crashed

\* C19: ClearNonCoveredRangeEntries(table_id) leaves in that table's range
\* map exactly its covered entries, unchanged, and changes nothing else:
\* the range maps of the other tables, tablets_by_id, entry_by_tablet_id,
\* the tablets, ts_cache and the registry stay as they were; for a table
\* without a range map nothing changes at all.
C19_ClearNonCoveredFrame == [][ClearNonCoveredStep]_vars

\* C19 witness: ClearNonCoveredRangeEntries("T1") has run on a cache that
\* held non-covered entries around tablet A: A's entry alone is left in the
\* map of T1, at its lower bound, while table T2 still holds non-covered
\* entries and tablet A is still known by id.
C19_Witness ==
  /\ last.op = "ClearNonCoveredRangeEntries" /\ last.table = "T1"
  /\ "T1" \in DOMAIN tablets_by_table_and_key
  /\ DOMAIN tablets_by_table_and_key["T1"] = {1}
  /\ ~is_non_covered_range(tablets_by_table_and_key["T1"][1])
  /\ "T2" \in DOMAIN tablets_by_table_and_key
  /\ \E k \in DOMAIN tablets_by_table_and_key["T2"] :
       is_non_covered_range(tablets_by_table_and_key["T2"][k])
  /\ "A" \in DOMAIN tablets_by_id
  /\ "A" \in DOMAIN entry_by_tablet_id

\* One step of ClearCache, old state against new
ClearCacheStep ==
  last'.op = "ClearCache" =>
    /\ ts_cache' = NoServers
    /\ DOMAIN tablets_by_id' = {}
    /\ DOMAIN tablets_by_table_and_key' = {}
    /\ DOMAIN entry_by_tablet_id' = {}
    /\ ts_registry' = ts_registry

\* Any step: the registry keeps every uuid, bound to the object it had
RegistryKeepsServers ==
  \A uuid \in DOMAIN ts_registry :
    uuid \in DOMAIN ts_registry' /\ ts_registry'[uuid] = ts_registry[uuid]

\* The RemoteTabletServer pointers held by ts_cache_ and by the replicas of
\* every RemoteTablet ever built point to objects the registry owns
ServerHandlesValid ==
  /\ \A uuid \in DOMAIN ts_cache :
       uuid \in DOMAIN ts_registry /\ ts_cache[uuid] = ts_registry[uuid]
  /\ \A ref \in DOMAIN tablets : \A i \in 1..Len(tablets[ref].replicas) :
       tablets[ref].replicas[i].ts \in DOMAIN ts_registry

\* C20: ClearCache empties ts_cache, tablets_by_id, tablets_by_table_and_key
\* and entry_by_tablet_id and leaves ts_registry as it was; no step of
\* ingestion or invalidation removes a uuid from the registry or binds it
\* to another RemoteTabletServer object, so a uuid seen again after
\* ClearCache gets the object it had; the server pointers held by ts_cache
\* and by tablet replicas always point to objects of the registry.
C20_RegistrySurvivesClearCache ==
  [][ClearCacheStep /\ RegistryKeepsServers /\ ServerHandlesValid']_vars

\* C20 witness: after a ClearCache that forgot a tablet with replicas, an
\* ingestion has put the servers back into ts_cache, bound to the objects
\* the registry kept.
C20_Witness ==
  /\ last.op = "ProcessGetTableLocationsResponse" /\ last.status = "OK"
  /\ \E ref \in DOMAIN tablets :
       /\ tablets[ref].replicas # <<>>
       /\ \A id \in DOMAIN tablets_by_id : tablets_by_id[id] # ref
  /\ ts_cache # NoServers
  /\ \A uuid \in DOMAIN ts_cache : ts_cache[uuid] = ts_registry[uuid]

\* The range map of table as a fast-path reader finds it under the read
\* lock, given tablets_by_table_and_key_
RangeMapIn(by_key, table) == IF table \in DOMAIN by_key THEN by_key[table] ELSE EmptyMap

\* C21: ProcessGetTableLocationsResponse runs under the write lock from its
\* first change to its return, so what a fast-path reader can observe of a
\* response is what the call leaves behind; a call that stops with an error
\* leaves the range map of the table as it was before the response, no
\* erasure and no insertion of that response being visible.
C21_IngestionAllOrNothing ==
  [][(/\ last'.op = "ProcessGetTableLocationsResponse"
      /\ last'.status # "OK"
      /\ ~crashed')
       => RangeMapIn(tablets_by_table_and_key', last'.table)
            = RangeMapIn(tablets_by_table_and_key, last'.table)]_vars

\* The first tablet of resp with an interned replica whose ts_info_idx is
\* out of range, the one Refresh fails on; 0 if there is none
FirstBadTablet(resp) ==
  LET bad == {i \in 1..Len(resp.tablet_locations) :
                \E j \in 1..Len(resp.tablet_locations[i].interned_replicas) :
                  resp.tablet_locations[i].interned_replicas[j].ts_info_idx
                    >= Len(resp.ts_infos)}
  IN IF bad = {} THEN 0 ELSE CHOOSE i \in bad : \A j \in bad : i <= j

\* The entries of table's range map whose range meets [lower, upper)
OverlappingEntries(c, table, lower, upper) ==
  MapKeep(RangeMap(c, table),
          {k \in DOMAIN RangeMap(c, table) :
             /\ upper = EmptyKey \/ k < upper
             /\ \/ upper_bound_partition_key(c.tablets, RangeMap(c, table)[k]) = EmptyKey
                \/ lower < upper_bound_partition_key(c.tablets, RangeMap(c, table)[k])})

\* What the cache c holds for the tablet of a TabletLocationsPB
CacheStateFor(c, table, tablet) ==
  [object |-> IF tablet.tablet_id \in DOMAIN c.tablets_by_id
              THEN c.tablets[c.tablets_by_id[tablet.tablet_id]] ELSE NoEntry,
   by_id |-> IF tablet.tablet_id \in DOMAIN c.tablets_by_id
             THEN c.tablets_by_id[tablet.tablet_id] ELSE NullRef,
   entry_by_id |-> IF tablet.tablet_id \in DOMAIN c.entry_by_id
                   THEN c.entry_by_id[tablet.tablet_id] ELSE NoEntry,
   by_key |-> OverlappingEntries(c, table, tablet.partition_key_start,
                                 tablet.partition_key_end)]

\* C22: when a table-locations response references an interned ts_info
\* index that is out of range, ingestion fails with Corruption and leaves
\* the cache as it was for that tablet: its replica list and stale flag, the
\* range-map entries meeting its range, and its tablets_by_id and
\* entry_by_tablet_id entries (none created).
C22_CorruptionLeavesTablet ==
  ~crashed =>
    \A in \in IngestInputs :
      FirstBadTablet(in.resp) > 0 =>
        /\ IngestOf(Cache, now, in).status = "Corruption"
        /\ CacheStateFor(IngestOf(Cache, now, in).cache, in.table,
                         in.resp.tablet_locations[FirstBadTablet(in.resp)])
             = CacheStateFor(Cache, in.table,
                             in.resp.tablet_locations[FirstBadTablet(in.resp)])

\* Responses the master RPC of rpc can bring that Refresh rejects: the
\* tablet asked for, with an interned replica whose ts_info_idx is out of
\* range
CorruptResponsesFor(rpc) ==
  TableResponsesOf({<<IF rpc.kind = "id" THEN rpc.tablet_id ELSE "A">>},
                   {ReplicasBadIdx}, {0})

\* C23: when the master RPC of a lookup succeeds and installing its response
\* fails with Corruption, the user callback is invoked with Corruption, for
\* a lookup by key as for a lookup by id, never with OK or NotFound, and no
\* tablet is handed to the caller.
C23_InstallErrorReachesCallback ==
  ~crashed =>
    \A l \in LookupIds :
      (lookups[l].pc = "rpc" /\ lookups[l].cb = "user") =>
        \A resp \in CorruptResponsesFor(lookups[l]) :
          IngestedFor(lookups[l], [status |-> "OK", resp |-> resp]).status
              = "Corruption" =>
            /\ SendRpcCbOf(lookups[l], [status |-> "OK", resp |-> resp]).kind
                 = "callback"
            /\ SendRpcCbOf(lookups[l], [status |-> "OK", resp |-> resp]).status
                 = "Corruption"
            /\ SendRpcCbOf(lookups[l], [status |-> "OK", resp |-> resp]).entry
                 = NoEntry

\* The positions of the LEADER replicas of tablet object t
Leaders(t) == {i \in 1..Len(t.replicas) : t.replicas[i].role = "LEADER"}

\* The positions of the replicas of server x in tablet object t
ReplicasOf(t, x) == {i \in 1..Len(t.replicas) : t.replicas[i].ts = x}

\* Refresh of tablet object t with the replica list reps of a response whose
\* servers the cache knows
RefreshWith(t, reps) ==
  Refresh(t, UpdateTabletServers(Cache, <<"ts1", "ts2">>, 1).ts_cache,
          TabletLocationsPB(t.tablet_id, reps), <<"ts1", "ts2">>)

\* A replica list of a response with at most one LEADER
AtMostOneLeaderListed(reps) ==
  Cardinality({i \in 1..Len(reps) : reps[i].role = "LEADER"}) <= 1

\* C24 as stated: in every reachable state at most one replica of every
\* RemoteTablet has role LEADER, whatever the master responses were.
C24_AtMostOneLeader ==
  \A ref \in DOMAIN tablets : Cardinality(Leaders(tablets[ref])) <= 1

\* C24 amended: a successful Refresh installs the roles exactly as the
\* response lists them, MarkTServerAsLeader(x) leaves as LEADER exactly the
\* replicas of x, MarkTServerAsFollower(x) removes x's replicas from the
\* leaders and MarkReplicaFailed changes no role; so a tablet with at most
\* one LEADER keeps at most one through every mark and through every Refresh
\* whose response lists at most one LEADER.
C24_LeadersAsReported ==
  \A ref \in DOMAIN tablets :
    /\ \A reps \in ReplicaLists :
         RefreshWith(tablets[ref], reps).status = "OK" =>
           /\ Len(RefreshWith(tablets[ref], reps).tablet.replicas) = Len(reps)
           /\ \A i \in 1..Len(reps) :
                RefreshWith(tablets[ref], reps).tablet.replicas[i].role = reps[i].role
           /\ AtMostOneLeaderListed(reps) =>
                Cardinality(Leaders(RefreshWith(tablets[ref], reps).tablet)) <= 1
    /\ \A x \in Servers :
         /\ Leaders(MarkTServerAsLeader(tablets[ref], x)) = ReplicasOf(tablets[ref], x)
         /\ Cardinality(Leaders(MarkTServerAsLeader(tablets[ref], x))) <= 1
         /\ Leaders(MarkTServerAsFollower(tablets[ref], x))
              = Leaders(tablets[ref]) \ ReplicasOf(tablets[ref], x)
         /\ Leaders(MarkReplicaFailed(tablets[ref], x)) = Leaders(tablets[ref])

\* C24 witness: a table-locations response listing two LEADER replicas has
\* just been ingested and the tablet holds two leaders; MarkTServerAsLeader
\* would leave one.
C24_Witness ==
  /\ last.op = "ProcessGetTableLocationsResponse" /\ last.status = "OK"
  /\ \E ref \in DOMAIN tablets :
       /\ Cardinality(Leaders(tablets[ref])) = 2
       /\ ~tablets[ref].stale
       /\ \A x \in Servers :
            Cardinality(Leaders(MarkTServerAsLeader(tablets[ref], x))) = 1

\* No replica of server ts in tablet object t is marked failed
NotFailedIn(t, ts) == \A i \in ReplicasOf(t, ts) : ~t.replicas[i].failed

\* The servers of the non-failed replicas of t, in list order
NonFailedServers(t) ==
  LET kept == SelectSeq(t.replicas, LAMBDA r : ~r.failed)
  IN [i \in 1..Len(kept) |-> kept[i].ts]

\* The failed flags of tablet object t, position by position
FailedFlags(t) == [i \in 1..Len(t.replicas) |-> t.replicas[i].failed]

\* No selection path returns the server of a failed replica, and no mark
\* resets a failed flag
FailedNeverSelected ==
  ~crashed =>
    /\ \A ref \in DOMAIN tablets :
         /\ LeaderTServer(tablets[ref]) # NullTs =>
              /\ NotFailedIn(tablets[ref], LeaderTServer(tablets[ref]))
              /\ ReplicasOf(tablets[ref], LeaderTServer(tablets[ref])) # {}
         /\ GetRemoteTabletServers(tablets[ref]) = NonFailedServers(tablets[ref])
         /\ \A x \in Servers :
              /\ \A i \in ReplicasOf(tablets[ref], x) :
                   MarkReplicaFailed(tablets[ref], x).replicas[i].failed
              /\ LeaderTServer(MarkReplicaFailed(tablets[ref], x)) # x
              /\ \A i \in 1..Len(GetRemoteTabletServers(MarkReplicaFailed(tablets[ref], x))) :
                   GetRemoteTabletServers(MarkReplicaFailed(tablets[ref], x))[i] # x
              /\ FailedFlags(MarkTServerAsLeader(tablets[ref], x)) = FailedFlags(tablets[ref])
              /\ FailedFlags(MarkTServerAsFollower(tablets[ref], x)) = FailedFlags(tablets[ref])
         /\ FailedFlags(MarkStale(tablets[ref])) = FailedFlags(tablets[ref])
    /\ picker # NoPicker =>
         /\ \A proxy \in {"OK", "NetworkError"} :
              (/\ PickLeader(World(proxy), now, MaxDepth).kind = "picked"
               /\ PickLeader(World(proxy), now, MaxDepth).ts # NullTs)
                => NotFailedIn(tablets[picker.tablet],
                               PickLeader(World(proxy), now, MaxDepth).ts)
         /\ \A l \in LookupIds :
              (lookups[l].pc = "rpc" /\ lookups[l].cb = "picker") =>
                \A c \in PickerCompletions(lookups[l]) :
                  (/\ SendRpcCbOf(lookups[l], c).kind = "picked"
                   /\ SendRpcCbOf(lookups[l], c).ts # NullTs)
                    => NotFailedIn(SendRpcCbOf(lookups[l], c).cache.tablets[picker.tablet],
                                   SendRpcCbOf(lookups[l], c).ts)
         /\ (last.kind = "picked" /\ last.ts # NullTs) =>
              NotFailedIn(tablets[picker.tablet], last.ts)
    /\ (last.op \in {"MarkServerFailed", "MarkTSFailed"} /\ picker # NoPicker) =>
         \/ \A i \in ReplicasOf(tablets[picker.tablet], last.ts) :
              tablets[picker.tablet].replicas[i].failed
         \/ \A id \in DOMAIN tablets_by_id : tablets_by_id[id] # picker.tablet

\* One step of the cache: a failed flag is reset only by an ingestion, whose
\* successful Refresh replaces the list, clearing every failed flag and stale
FailedUntilRefresh ==
  \A ref \in DOMAIN tablets : \A i \in 1..Len(tablets[ref].replicas) :
    (/\ tablets[ref].replicas[i].failed
     /\ ~(/\ i <= Len(tablets'[ref].replicas)
          /\ tablets'[ref].replicas[i].ts = tablets[ref].replicas[i].ts
          /\ tablets'[ref].replicas[i].failed))
      => /\ last'.op \in {"ProcessGetTableLocationsResponse",
                          "ProcessGetTabletLocationsResponse", "SendRpcCb"}
         /\ \A j \in 1..Len(tablets'[ref].replicas) : ~tablets'[ref].replicas[j].failed
         /\ ~tablets'[ref].stale

\* C25: a replica marked failed by MarkReplicaFailed or MarkTSFailed stays
\* failed until a successful Refresh of its tablet, and while it is failed
\* no selection path returns its server: LeaderTServer does not return it,
\* GetRemoteTabletServers lists the other servers in list order, and no
\* PickLeader, started by a caller or re-entered from a lookup, delivers it.
\* Only Refresh resets a failed flag.
C25_FailedNeverSelected == []FailedNeverSelected /\ [][FailedUntilRefresh]_vars

\* C25 witness: PickLeader has just delivered a server of the picker's
\* tablet while the other replica of that tablet is marked failed.
C25_Witness ==
  /\ last.op = "PickLeader" /\ last.kind = "picked" /\ last.ts # NullTs
  /\ picker # NoPicker
  /\ \E i \in 1..Len(tablets[picker.tablet].replicas) :
       /\ tablets[picker.tablet].replicas[i].failed
       /\ tablets[picker.tablet].replicas[i].ts # last.ts
  /\ ReplicasOf(tablets[picker.tablet], last.ts) # {}

\* What MarkStale, Refresh and the other marks do to the stale flag of every
\* tablet object of the state
StaleOperations ==
  \A ref \in DOMAIN tablets :
    /\ MarkStale(tablets[ref]) = [tablets[ref] EXCEPT !.stale = TRUE]
    /\ MarkStale(MarkStale(tablets[ref])) = MarkStale(tablets[ref])
    /\ \A x \in Servers :
         /\ MarkTServerAsLeader(tablets[ref], x).stale = tablets[ref].stale
         /\ MarkTServerAsFollower(tablets[ref], x).stale = tablets[ref].stale
         /\ MarkReplicaFailed(tablets[ref], x).stale = tablets[ref].stale
    /\ \A reps \in ReplicaLists :
         /\ RefreshWith(MarkStale(tablets[ref]), reps).status \in {"OK", "Corruption"}
         /\ RefreshWith(MarkStale(tablets[ref]), reps).status = "Corruption" =>
              RefreshWith(MarkStale(tablets[ref]), reps).tablet = MarkStale(tablets[ref])
         /\ RefreshWith(MarkStale(tablets[ref]), reps).status = "OK" =>
              /\ ~RefreshWith(MarkStale(tablets[ref]), reps).tablet.stale
              /\ Len(RefreshWith(MarkStale(tablets[ref]), reps).tablet.replicas) = Len(reps)
              /\ \A i \in 1..Len(reps) :
                   /\ ~RefreshWith(MarkStale(tablets[ref]), reps).tablet.replicas[i].failed
                   /\ RefreshWith(MarkStale(tablets[ref]), reps).tablet.replicas[i].ts
                        = <<"ts1", "ts2">>[reps[i].ts_info_idx + 1]
                   /\ RefreshWith(MarkStale(tablets[ref]), reps).tablet.replicas[i].role
                        = reps[i].role

\* One step of the cache: a stale flag that is set stays set, unless the
\* step is an ingestion that returned OK, which leaves no failed flag
StaleOneWay ==
  \A ref \in DOMAIN tablets :
    (tablets[ref].stale /\ ~tablets'[ref].stale) =>
      /\ last'.op \in {"ProcessGetTableLocationsResponse",
                       "ProcessGetTabletLocationsResponse"}
      /\ last'.status = "OK"
      /\ \A i \in 1..Len(tablets'[ref].replicas) : ~tablets'[ref].replicas[i].failed

\* C26: once MarkStale has set the stale flag of a tablet it stays set
\* through every operation but a successful Refresh of that tablet:
\* MarkStale is idempotent, a Refresh that fails with Corruption leaves the
\* flag set and the replica list as it was, and a successful Refresh
\* replaces the replica list, leaves no failed flag and clears stale at once.
C26_StaleUntilRefresh == []StaleOperations /\ [][StaleOneWay]_vars

\* C26 witness: a response with an out-of-range ts_info index has just been
\* rejected with Corruption, and the tablet it named is still stale with a
\* failed replica.
C26_Witness ==
  /\ last.op = "ProcessGetTableLocationsResponse" /\ last.status = "Corruption"
  /\ \E ref \in DOMAIN tablets :
       /\ tablets[ref].stale
       /\ \E i \in 1..Len(tablets[ref].replicas) : tablets[ref].replicas[i].failed
       /\ ref[1] \in DOMAIN tablets_by_id /\ tablets_by_id[ref[1]] = ref

\* Tablet object t has a replica with role LEADER that is not marked failed
HasLiveLeader(t) ==
  \E i \in 1..Len(t.replicas) : t.replicas[i].role = "LEADER" /\ ~t.replicas[i].failed

\* The entry e of the cache is a tablet entry the fast path may serve now:
\* not expired, its tablet not stale and with a non-failed leader
Servable(e) ==
  /\ e.kind = "tablet"
  /\ ~(e.expiration_time < now)
  /\ ~tablets[e.tablet].stale
  /\ HasLiveLeader(tablets[e.tablet])

\* The entry of table T1 whose range holds partition_key, NoEntry if none
EntryHolding(partition_key) ==
  LET m == RangeMap(Cache, "T1")
      held == {k \in DOMAIN m :
                 /\ k <= partition_key
                 /\ \A j \in DOMAIN m : j <= partition_key => j <= k
                 /\ \/ upper_bound_partition_key(tablets, m[k]) = EmptyKey
                    \/ partition_key < upper_bound_partition_key(tablets, m[k])
                 /\ lower_bound_partition_key(tablets, m[k]) <= partition_key}
  IN IF held = {} THEN NoEntry ELSE m[CHOOSE k \in held : TRUE]

\* The lookup of outcome o went to the master: a lookup object is left with
\* its RPC out, or waiting to retry for a permit
WentToMaster(o) ==
  o.kind = "pending" /\ o.rpc # NoLookup /\ o.rpc.pc \in {"rpc", "retry"}

\* C27: the fast path by key and by id returns OK with a tablet only if
\* that tablet's entry is not expired, the tablet is not stale and it has a
\* non-failed LEADER replica; when the entry for the key or id is missing,
\* expired, or a tablet entry whose tablet is stale or without non-failed
\* leader, the fast path returns Incomplete and the lookup goes to the master.
C27_FastPathNeedsLeader ==
  ~crashed =>
    /\ \A k \in Keys : \A type \in LookupTypes :
         /\ DoFastPathLookup(Cache, now, "T1", k, type).status = "OK" =>
              /\ Servable(DoFastPathLookup(Cache, now, "T1", k, type).entry)
              /\ DoFastPathLookup(Cache, now, "T1", k, type).tablet
                   = DoFastPathLookup(Cache, now, "T1", k, type).entry.tablet
              /\ \E j \in DOMAIN RangeMap(Cache, "T1") :
                   RangeMap(Cache, "T1")[j]
                     = DoFastPathLookup(Cache, now, "T1", k, type).entry
         /\ (\/ EntryHolding(k) = NoEntry
             \/ EntryHolding(k).expiration_time < now
             \/ EntryHolding(k).kind = "tablet" /\ ~Servable(EntryHolding(k)))
              => DoFastPathLookup(Cache, now, "T1", k, type).status = "Incomplete"
         /\ DoFastPathLookup(Cache, now, "T1", k, type).status = "Incomplete" =>
              WentToMaster(LookupTabletByKey(World("OK"), now, "user", "T1", k, type,
                                             MaxDepth))
    /\ \A id \in TabletIds :
         /\ DoFastPathLookupById(Cache, now, id).status = "OK" =>
              /\ id \in DOMAIN entry_by_tablet_id
              /\ DoFastPathLookupById(Cache, now, id).entry = entry_by_tablet_id[id]
              /\ Servable(entry_by_tablet_id[id])
              /\ DoFastPathLookupById(Cache, now, id).tablet = entry_by_tablet_id[id].tablet
         /\ (id \notin DOMAIN entry_by_tablet_id \/ ~Servable(entry_by_tablet_id[id]))
              => /\ DoFastPathLookupById(Cache, now, id).status = "Incomplete"
                 /\ WentToMaster(LookupTabletById(World("OK"), now, "user", id, MaxDepth))

\* C27 witness: tablet A is cached by key and by id with entries that have
\* not expired and its only LEADER replica is marked failed: both fast paths
\* return Incomplete, where they returned OK before the mark.
C27_Witness ==
  /\ last.op \in {"MarkReplicaFailed", "MarkTSFailed"}
  /\ "A" \in DOMAIN entry_by_tablet_id
  /\ ~(entry_by_tablet_id["A"].expiration_time < now)
  /\ EntryHolding(1) # NoEntry /\ EntryHolding(1).kind = "tablet"
  /\ ~(EntryHolding(1).expiration_time < now)
  /\ ~tablets[EntryHolding(1).tablet].stale
  /\ \E i \in 1..Len(tablets[EntryHolding(1).tablet].replicas) :
       tablets[EntryHolding(1).tablet].replicas[i].role = "LEADER"
  /\ ~HasLiveLeader(tablets[EntryHolding(1).tablet])
  /\ DoFastPathLookup(Cache, now, "T1", 1, "kPoint").status = "Incomplete"
  /\ DoFastPathLookupById(Cache, now, "A").status = "Incomplete"

\* A table-locations response listing tablet A with no replica at all
EmptyReplicaInputs ==
  {in \in [table : {"T1"}, key : {0, 1}, exact : {TRUE},
           resp : TableResponsesOf({<<"A">>}, {ReplicasNone}, {0, MaxTtl}),
           max : {MaxLocs}] : TRUE}

\* C28: a master response that lists a tablet with an empty replica set is
\* rejected with Corruption, and the tablet is neither installed nor
\* refreshed with an empty replica list: what the cache holds for it stays
\* as it was.
C28_EmptyReplicaSetRejected ==
  ~crashed =>
    /\ \A in \in EmptyReplicaInputs :
         /\ IngestOf(Cache, now, in).status = "Corruption"
         /\ CacheStateFor(IngestOf(Cache, now, in).cache, in.table,
                          in.resp.tablet_locations[1])
              = CacheStateFor(Cache, in.table, in.resp.tablet_locations[1])
    /\ \A resp \in TabletResponsesOf("A", {ReplicasNone}) :
         Len(resp.tablet_locations) = 1 =>
           ProcessGetTabletLocationsResponse(Cache, now, "A", resp).status = "Corruption"
    /\ \A id \in DOMAIN tablets_by_id : tablets[tablets_by_id[id]].replicas # <<>>

\* Tablet object after is tablet object before with the replicas of server
\* ts marked failed and nothing else changed
MarkedFailed(before, after, ts) ==
  /\ after.tablet_id = before.tablet_id
  /\ after.partition = before.partition
  /\ after.stale = before.stale
  /\ Len(after.replicas) = Len(before.replicas)
  /\ \A i \in 1..Len(before.replicas) :
       /\ after.replicas[i].ts = before.replicas[i].ts
       /\ after.replicas[i].role = before.replicas[i].role
       /\ after.replicas[i].failed
            = (before.replicas[i].failed \/ before.replicas[i].ts = ts)

\* One step of MarkTSFailed(ts), old state against new
MarkTSFailedStep ==
  last'.op = "MarkTSFailed" =>
    /\ DOMAIN tablets' = DOMAIN tablets
    /\ \A ref \in DOMAIN tablets :
         IF \E id \in DOMAIN tablets_by_id : tablets_by_id[id] = ref
         THEN MarkedFailed(tablets[ref], tablets'[ref], last'.ts)
         ELSE tablets'[ref] = tablets[ref]
    /\ tablets_by_id' = tablets_by_id
    /\ tablets_by_table_and_key' = tablets_by_table_and_key
    /\ entry_by_tablet_id' = entry_by_tablet_id
    /\ ts_cache' = ts_cache
    /\ ts_registry' = ts_registry
    /\ last'.status = ""
    /\ crashed' = crashed

\* C29: MarkTSFailed(ts) sets failed on every replica of ts in every tablet
\* of tablets_by_id and changes nothing else: roles, replica order, the
\* failed flags of other servers, stale flags, range maps, entries and their
\* expirations stay as they were and no error is surfaced; a tablet object
\* that is no longer in tablets_by_id is not marked.
C29_MarkTSFailedFrame == [][MarkTSFailedStep]_vars

\* C29 witness: MarkTSFailed has just marked the replicas of a server in a
\* tablet of tablets_by_id, while a tablet object forgotten by ClearCache
\* keeps its replica of that server unmarked.
C29_Witness ==
  /\ last.op = "MarkTSFailed"
  /\ \E id \in DOMAIN tablets_by_id :
       \E i \in 1..Len(tablets[tablets_by_id[id]].replicas) :
         /\ tablets[tablets_by_id[id]].replicas[i].ts = last.ts
         /\ tablets[tablets_by_id[id]].replicas[i].failed
  /\ \E ref \in DOMAIN tablets :
       /\ \A id \in DOMAIN tablets_by_id : tablets_by_id[id] # ref
       /\ \E i \in 1..Len(tablets[ref].replicas) :
            /\ tablets[ref].replicas[i].ts = last.ts
            /\ ~tablets[ref].replicas[i].failed

----------------------------------------------------------------------------
(* Lock order *)

\* MetaCache::lock_ before a RemoteTablet's lock before a RemoteTabletServer's;
\* the picker's lock stands alone
LockRank(lock) ==
  CASE lock[1] = "MetaCache" -> 1
    [] lock[1] = "RemoteTablet" -> 2
    [] lock[1] = "RemoteTabletServer" -> 3
    [] OTHER -> 4

\* the thread is about to take a lock
Acquiring(th) == Busy(th) /\ NextStep(th).do \in {"lock", "lock_shared"}

\* every lock the thread holds ranks below the one it takes next, and none is the picker's
InLockOrder(th) ==
  Acquiring(th) =>
    \A h \in Held(th) : h.on # PickerLock /\ LockRank(h.on) < LockRank(NextStep(th).on)

\* while a call is under way, some thread can take its next step
NoDeadlock == (\E th \in Threads : Busy(th)) => (\E th \in Threads : CanStep(th))

\* C30: in every interleaving of the calls, a thread takes locks only in the order
\* MetaCache::lock_, RemoteTablet lock, RemoteTabletServer lock, takes no lock while
\* it holds the picker's, and some thread can always go on: no deadlock is reachable.
C30_LockOrder == (\A th \in Threads : InLockOrder(th)) /\ NoDeadlock

\* C30 witness: a thread holds MetaCache::lock_, a tablet's lock and a server's lock
\* at once, while another thread waits for a lock it cannot get yet.
C30_Witness ==
  \E th \in Threads, o \in Threads :
    /\ {LockRank(h.on) : h \in Held(th)} = {1, 2, 3}
    /\ o # th
    /\ Acquiring(o)
    /\ ~CanAcquire(NextStep(o))

\* the thread is about to hand control to the outside
Leaving(th) == Busy(th) /\ NextStep(th).do = "leave"

\* C31: where control leaves the subsystem (a master RPC is issued, a retry is
\* scheduled, DNS resolution is started, a user callback or pick completion is
\* invoked), the calling thread holds no cache, tablet, server or picker lock.
C31_NoLockAcrossLeave == \A th \in Threads : Leaving(th) => Held(th) = {}

\* C31 witness: a thread that took and released locks during its call is about to
\* invoke a callback, while another thread is inside a lock.
C31_Witness ==
  \E th \in Threads, o \in Threads :
    /\ Leaving(th)
    /\ NextStep(th).on = <<"outside", "callback">>
    /\ threads[th].pc > 0
    /\ o # th
    /\ Held(o) # {}

\* C32: a PickLeader in progress excludes every server that MarkReplicaNotLeader
\* added to followers_ after the call read the cached leader and before it chose:
\* the server it chose, and marked as leader, is none of them.
C32_PickExcludesReported ==
  picking.pc = "chosen" /\ picking.leader # NullTs => picking.leader \notin picking.reported

\* a PickLeader without a leader reaches the lookup step
FallsThroughToLookup == picking.pc = "chosen" /\ picking.leader = NullTs /\ last'.op = "PickLeader"

\* C33: when PickLeader falls through to the lookup step, the lookup is not answered
\* by the fast path: it is left waiting for the master, and followers_ is not cleared
\* in that step, also while another picker of the tablet marks a leader.
C33_LookupGoesToMaster ==
  [][FallsThroughToLookup => last'.kind = "pending" /\ picker'.followers = picker.followers]_vars

\* the step answers a point lookup of key k of the table with OK
PointLookupOk(k) ==
  /\ last'.kind = "callback" /\ last'.status = "OK"
  /\ \/ last'.op = "LookupTabletByKey" /\ last'.type = "kPoint" /\ last'.key = k
     \/ /\ last'.op = "SendRpcCb"
        /\ \E l \in LookupIds : /\ lookups[l].kind = "key" /\ lookups[l].cb = "user"
                                /\ lookups[l].lookup_type = "kPoint"
                                /\ lookups[l].partition_key = k

\* C34: a point lookup of key k that completes with OK, on the fast path or after
\* the master's answer, resolves to a tablet whose partition contains k.
C34_PointLookupContainsKey ==
  [][\A k \in Keys : PointLookupOk(k) =>
       /\ ~is_non_covered_range(last'.entry)
       /\ Contains(tablets', last'.entry, k)]_vars

\* entry_by_tablet_id_ holds, under a tablet id, the object tablets_by_id_ holds
ByIdEntriesAgree ==
  \A id \in DOMAIN entry_by_tablet_id :
    /\ id \in DOMAIN tablets_by_id
    /\ ~is_non_covered_range(entry_by_tablet_id[id])
    /\ entry_by_tablet_id[id].tablet = tablets_by_id[id]

\* a covered entry of a range map holds the object tablets_by_id_ holds under its id
RangeEntriesAgree ==
  \A table \in DOMAIN tablets_by_table_and_key :
    \A k \in DOMAIN tablets_by_table_and_key[table] :
      LET e == tablets_by_table_and_key[table][k]
      IN ~is_non_covered_range(e) =>
           /\ tablets[e.tablet].tablet_id \in DOMAIN tablets_by_id
           /\ tablets_by_id[tablets[e.tablet].tablet_id] = e.tablet

\* ts_cache_ holds, under a uuid, the object the registry owns under it
ServerCacheAgrees ==
  \A uuid \in DOMAIN ts_cache :
    uuid \in DOMAIN ts_registry /\ ts_cache[uuid] = ts_registry[uuid]

\* C35: every PickLeader call ends with its completion invoked, or with a master
\* lookup left in flight whose answer will invoke it: PickLeader and LookUpTabletCb
\* do not re-enter each other without end.
C35_PickLeaderCompletes ==
  last.op \in {"PickLeader", "SendRpcCb"} => last.kind \in {"picked", "pending"}

\* C36: after any ingestions by key and by id and any invalidations, every key of
\* entry_by_tablet_id is a key of tablets_by_id with the same RemoteTablet object,
\* every covered range-map entry holds the object tablets_by_id has under its tablet
\* id, and every ts_cache value is the registry's object for its uuid.
C36_OneObjectPerTabletId == ByIdEntriesAgree /\ RangeEntriesAgree /\ ServerCacheAgrees

\* C36 witness: tablet A was forgotten by ClearCache and ingested again: its first
\* object is still alive outside the cache, and the range map, tablets_by_id and
\* entry_by_tablet_id all hold the second one.
C36_Witness ==
  /\ <<"A", 1>> \in DOMAIN tablets
  /\ "A" \in DOMAIN tablets_by_id /\ tablets_by_id["A"] = <<"A", 2>>
  /\ "A" \in DOMAIN entry_by_tablet_id
  /\ "T1" \in DOMAIN tablets_by_table_and_key
  /\ \E k \in DOMAIN tablets_by_table_and_key["T1"] :
       /\ ~is_non_covered_range(tablets_by_table_and_key["T1"][k])
       /\ tablets_by_table_and_key["T1"][k].tablet = <<"A", 2>>

\* C37: ingesting, by key or by id, a response whose tablets are sorted by lower
\* bound with pairwise disjoint ranges never fails a fatal assertion: every key
\* inserted with InsertOrDie or EmplaceOrDie is absent, every server Refresh looks up
\* with FindOrDie is in ts_cache, and FindFloorOrDie finds an entry.
C37_NoFatalAssertion == ~crashed

====
